---- MODULE Spec2Model ----
(***************************************************************************)
(* The SVG normalizer clean_svg_content of the seven P&ID symbol           *)
(* extractors (ISO valves / pipes and signal lines / instruments, PIP      *)
(* valves / pipes and signal lines / instruments / fittings).              *)
(*                                                                         *)
(* A text is a sequence of pieces; the text itself is the concatenation    *)
(* of the pieces.  The pieces are cut so that every substring the          *)
(* normalizers search for ('fill=', '<path', 'Z', ...) lies inside one     *)
(* piece, so "sub in s" is "some piece of s contains sub", and every       *)
(* str.replace of the code inserts a whole piece next to the piece that    *)
(* holds the searched text.                                                *)
(***************************************************************************)
EXTENDS Integers, Sequences, FiniteSets, TLC

VARIABLES family, raw, svg_content, lines, fixed_lines, pc, results,
          json_file, svg_file, args, symbol_data, symbol_names, has_names,
          output_dir, csv_file, todo, extracted_count, called, exit_code, rpc,
          installed, png_dir, conversion

\* the variables of clean_svg_content
normalizer_vars ==
  <<family, raw, svg_content, lines, fixed_lines, pc, results>>

\* the variables of a run of main
run_vars ==
  <<json_file, svg_file, args, symbol_data, symbol_names, has_names,
    output_dir, csv_file, todo, extracted_count, called, exit_code, rpc,
    installed, png_dir, conversion>>

vars == <<normalizer_vars, run_vars>>

(***************************************************************************)
(* Bounds of the model.                                                    *)
(***************************************************************************)
\* how many times the normalizer is applied, each time to its own output
MaxPass == 2
\* how many sibling elements precede the element under study
MaxSiblings == 1

(***************************************************************************)
(* Pieces of text.                                                         *)
(***************************************************************************)
GT == ">"
NL == "\n"
SLASH == "/"
XML_DECL == "<?xml version=\"1.0\" encoding=\"UTF-8\"?"
SVG == "<svg"
SVG_END == "</svg"
XMLNS == " xmlns=\"http://www.w3.org/2000/svg\""
XMLNS_XLINK == " xmlns:xlink=\"http://www.w3.org/1999/xlink\""
T_PATH == "<path"
T_RECT == "<rect"
T_CIRCLE == "<circle"
T_ELLIPSE == "<ellipse"
T_POLYGON == "<polygon"
T_POLYLINE == "<polyline"
T_LINE == "<line"
T_USE == "<use"
XLINK_HREF == " xlink:href=\"#a\""
D_OPEN == " d=\"M0 0L5 5\""
D_CLOSED == " d=\"M0 0L5 5Z\""
D_CLOSED_LC == " d=\"M0 0l5 5z\""
D_CLOSED_HV == " d=\"M0 0H5V5Z\""
R_2 == " r=\"2\""
R_3 == " r=\"3\""
R_2_5 == " r=\"2.5\""
R_5 == " r=\"5\""
STROKE_RED == " stroke=\"#ff0000\""
STROKE_BLACK == " stroke=\"#000000\""
STROKE_WIDTH == " stroke-width=\"1\""
FILL_NONE == " fill=\"none\""
FILL_WHITE == " fill=\"white\""
FILL_BLACK == " fill=\"#000000\""
ID_ZONE == " id=\"Zone\""
MARKER_END == " marker-end=\"url(#a)\""
V_UNIT == " v:unit=\"mm\""
\* an attribute whose value quotes a vendor attribute with &quot; entities,
\* the same piece with the entities unescaped, and with the quoted part cut
TITLE_ESC == " title=\"x v:a=&quot;b&quot;\""
TITLE_RAW == " title=\"x v:a=\"b\"\""
TITLE_X == " title=\"x\""
\* an attribute with a prefix other than v:
INK_LABEL == " inkscape:label=\"a\""
\* character data standing right before a tag
TEXT_ZONE == "Zone"

\* the pieces whose text contains the substring sub
Occurs(sub) ==
  CASE sub = "<svg" -> {SVG}
    [] sub = "xmlns=" -> {XMLNS}
    [] sub = "xlink:href" -> {XLINK_HREF}
    [] sub = "xmlns:xlink" -> {XMLNS_XLINK}
    [] sub = "<?xml" -> {XML_DECL}
    [] sub = "&quot;" -> {TITLE_ESC}
    [] sub = "<path" -> {T_PATH}
    [] sub = "<rect" -> {T_RECT}
    [] sub = "<circle" -> {T_CIRCLE}
    [] sub = "<ellipse" -> {T_ELLIPSE}
    [] sub = "<polygon" -> {T_POLYGON}
    [] sub = "<polyline" -> {T_POLYLINE}
    [] sub = "<line" -> {T_LINE}
    [] sub = "stroke-width=" -> {STROKE_WIDTH}
    [] sub = "stroke=" -> {STROKE_RED, STROKE_BLACK}
    [] sub = "stroke=\"#ff0000\"" -> {STROKE_RED}
    [] sub = "stroke=\"#646464\"" -> {}
    [] sub = "stroke=\"#000000\"" -> {STROKE_BLACK}
    [] sub = "stroke=\"#" -> {STROKE_RED, STROKE_BLACK}
    [] sub = "fill=" -> {FILL_NONE, FILL_WHITE, FILL_BLACK}
    [] sub = "fill=\"#ffffff\"" -> {}
    [] sub = "fill=\"#000000\"" -> {FILL_BLACK}
    [] sub = "Z" -> {D_CLOSED, D_CLOSED_HV, ID_ZONE, TEXT_ZONE}
    [] sub = "z" -> {D_CLOSED_LC}
    [] sub = "M" -> {D_OPEN, D_CLOSED, D_CLOSED_LC, D_CLOSED_HV}
    [] sub = "L" -> {D_OPEN, D_CLOSED}
    [] sub = "l" -> {XML_DECL, XMLNS, XMLNS_XLINK, T_CIRCLE, T_ELLIPSE, T_POLYGON,
                     T_POLYLINE, T_LINE, XLINK_HREF, D_CLOSED_LC, FILL_NONE,
                     FILL_WHITE, FILL_BLACK, MARKER_END, TITLE_ESC, TITLE_RAW,
                     TITLE_X, INK_LABEL}
    [] sub = "r=\"1\"" -> {}
    [] sub = "r=\"2\"" -> {R_2}
    [] sub = "r=\"3\"" -> {R_3}
    [] sub = "<marker" -> {}
    [] sub = "marker-" -> {MARKER_END}

(***************************************************************************)
(* The string operations of the code, on sequences of pieces.              *)
(***************************************************************************)
\* Python: sub in s
Contains(sub, s) == \E i \in 1..Len(s) : s[i] \in Occurs(sub)

\* Python: s.startswith(sub)
StartsWith(s, sub) == Len(s) > 0 /\ s[1] \in Occurs(sub)

RECURSIVE Concat(_)
\* the concatenation of a sequence of texts
Concat(ss) == IF ss = <<>> THEN <<>> ELSE Head(ss) \o Concat(Tail(ss))

\* Python: s.replace(old, old + added): added goes in after every piece that
\* holds old (old ends such a piece)
ReplaceAppend(s, old, added) ==
  Concat([i \in 1..Len(s) |->
            IF s[i] \in Occurs(old) THEN <<s[i], added>> ELSE <<s[i]>>])
\* s.replace(old, added): the text searched for is lost
ReplaceWith(s, old, added) ==
  Concat([i \in 1..Len(s) |->
            IF s[i] \in Occurs(old) THEN <<added>> ELSE <<s[i]>>])

\* Python: s.replace(old, added + old): added goes in before every piece
\* that holds old
ReplacePrepend(s, old, added) ==
  Concat([i \in 1..Len(s) |->
            IF s[i] \in Occurs(old) THEN <<added, s[i]>> ELSE <<s[i]>>])

\* Python: s.replace(old, old + added, 1): only the first occurrence
ReplaceAppendFirst(s, old, added) ==
  IF ~Contains(old, s) THEN s
  ELSE LET k == CHOOSE i \in 1..Len(s) :
                   /\ s[i] \in Occurs(old)
                   /\ \A j \in 1..(i - 1) : s[j] \notin Occurs(old)
       IN SubSeq(s, 1, k) \o <<added>> \o SubSeq(s, k + 1, Len(s))

RECURSIVE Split(_)
\* Python: s.split('>'): the texts between the '>' pieces, the last one the
\* text after the last '>' (empty when s ends in '>')
Split(s) ==
  IF \A i \in 1..Len(s) : s[i] # GT THEN <<s>>
  ELSE LET k == CHOOSE i \in 1..Len(s) :
                   s[i] = GT /\ \A j \in 1..(i - 1) : s[j] # GT
       IN <<SubSeq(s, 1, k - 1)>> \o Split(SubSeq(s, k + 1, Len(s)))

RECURSIVE Join(_)
\* Python: '>'.join(ss)
Join(ss) ==
  IF Len(ss) = 0 THEN <<>>
  ELSE IF Len(ss) = 1 THEN ss[1]
  ELSE ss[1] \o <<GT>> \o Join(Tail(ss))

(***************************************************************************)
(* clean_svg_content, the steps that are the same text in all seven        *)
(* extractors.                                                             *)
(***************************************************************************)
\* re.sub(r'\s+v:\w+="[^"]*"', '', svg_content): a v: attribute is cut out,
\* also one that stands inside the quotes of another attribute
re_sub_vendor(s) ==
  Concat([i \in 1..Len(s) |->
            IF s[i] = V_UNIT THEN <<>>
            ELSE IF s[i] = TITLE_RAW THEN <<TITLE_X>>
            ELSE <<s[i]>>])

\* svg_content.replace('&quot;', '"')
replace_quot(s) ==
  [i \in 1..Len(s) |-> IF s[i] = TITLE_ESC THEN TITLE_RAW ELSE s[i]]

\* add_xmlns without its test: the declaration goes in whatever the text holds
add_xmlns_always(s) == ReplaceAppendFirst(s, "<svg", XMLNS)

\* if 'xmlns=' not in svg_content: replace('<svg', '<svg xmlns=...', 1)
add_xmlns(s) ==
  IF ~Contains("xmlns=", s) THEN ReplaceAppendFirst(s, "<svg", XMLNS) ELSE s
\* add_xlink without its test 'xmlns:xlink' not in svg_content
add_xlink_undeclared_or_not(s) ==
  IF Contains("xlink:href", s)
  THEN ReplaceAppendFirst(s, "<svg", XMLNS_XLINK)
  ELSE s

\* if 'xlink:href' in svg_content and 'xmlns:xlink' not in svg_content:
\*     replace('<svg', '<svg xmlns:xlink=...', 1)
add_xlink(s) ==
  IF Contains("xlink:href", s) /\ ~Contains("xmlns:xlink", s)
  THEN ReplaceAppendFirst(s, "<svg", XMLNS_XLINK)
  ELSE s

\* if not svg_content.startswith('<?xml'): prepend the declaration and '\n'
add_xml_declaration(s) ==
  IF ~StartsWith(s, "<?xml") THEN <<XML_DECL, GT, NL>> \o s ELSE s

\* any(tag in line for tag in shape_tags)
is_shape(shape_tags, line) ==
  \E i \in 1..Len(shape_tags) : Contains(shape_tags[i], line)

\* for tag in shape_tags: if tag in line: line = line.replace(tag,
\* f'{tag} fill=...'); break
fill_first_tag(shape_tags, line, fill) ==
  IF ~is_shape(shape_tags, line) THEN line
  ELSE LET k == CHOOSE i \in 1..Len(shape_tags) :
                   /\ Contains(shape_tags[i], line)
                   /\ \A j \in 1..(i - 1) : ~Contains(shape_tags[j], line)
       IN ReplaceAppend(line, shape_tags[k], fill)

\* the shape_tags list of six of the extractors
shape_tags_7 ==
  <<"<path", "<rect", "<circle", "<ellipse", "<polygon", "<polyline", "<line">>

\* the shape_tags list of the ISO instruments extractor: no '<line'
shape_tags_6 ==
  <<"<path", "<rect", "<circle", "<ellipse", "<polygon", "<polyline">>

(***************************************************************************)
(* ISO valves: the body of the loop over lines.                            *)
(***************************************************************************)
ISOValves_stroke(line) ==
  IF Contains("stroke-width=", line) /\ ~Contains("stroke=", line)
  THEN IF ~Contains("stroke=\"#ff0000\"", line)
       THEN ReplacePrepend(line, "stroke-width=", STROKE_BLACK)
       ELSE line
  ELSE line

\* ISOValves_fill without the test 'fill=' not in line
ISOValves_fill_unguarded(line) ==
  IF Contains("stroke=", line) \/ Contains("stroke-width=", line)
  THEN IF Contains("stroke=\"#ff0000\"", line)
       THEN fill_first_tag(shape_tags_7, line, FILL_NONE)
       ELSE IF Contains("<path", line)
       THEN IF Contains("Z", line) \/ Contains("z", line)
            THEN ReplaceAppend(line, "<path", FILL_WHITE)
            ELSE ReplaceAppend(line, "<path", FILL_NONE)
       ELSE IF Contains("<polygon", line)
       THEN ReplaceAppend(line, "<polygon", FILL_WHITE)
       ELSE IF Contains("<circle", line) \/ Contains("<ellipse", line)
       THEN ReplaceAppend(ReplaceAppend(line, "<circle", FILL_WHITE),
                          "<ellipse", FILL_WHITE)
       ELSE IF Contains("<rect", line)
       THEN ReplaceAppend(line, "<rect", FILL_WHITE)
       ELSE IF Contains("<line", line)
       THEN ReplaceAppend(line, "<line", FILL_NONE)
       ELSE fill_first_tag(shape_tags_7, line, FILL_NONE)
  ELSE line

ISOValves_fill(line) ==
  IF ~Contains("fill=", line)
     /\ (Contains("stroke=", line) \/ Contains("stroke-width=", line))
  THEN IF Contains("stroke=\"#ff0000\"", line)
       THEN fill_first_tag(shape_tags_7, line, FILL_NONE)
       ELSE IF Contains("<path", line)
       THEN IF Contains("Z", line) \/ Contains("z", line)
            THEN ReplaceAppend(line, "<path", FILL_WHITE)
            ELSE ReplaceAppend(line, "<path", FILL_NONE)
       ELSE IF Contains("<polygon", line)
       THEN ReplaceAppend(line, "<polygon", FILL_WHITE)
       ELSE IF Contains("<circle", line) \/ Contains("<ellipse", line)
       THEN ReplaceAppend(ReplaceAppend(line, "<circle", FILL_WHITE),
                          "<ellipse", FILL_WHITE)
       ELSE IF Contains("<rect", line)
       THEN ReplaceAppend(line, "<rect", FILL_WHITE)
       ELSE IF Contains("<line", line)
       THEN ReplaceAppend(line, "<line", FILL_NONE)
       ELSE fill_first_tag(shape_tags_7, line, FILL_NONE)
  ELSE line

ISOValves_line(line) ==
  IF is_shape(shape_tags_7, line)
  THEN ISOValves_fill(ISOValves_stroke(line))
  ELSE line

(***************************************************************************)
(* ISO pipes and signal lines.                                             *)
(***************************************************************************)
ISOPipes_stroke(line) ==
  IF Contains("stroke-width=", line) /\ ~Contains("stroke=", line)
  THEN IF ~Contains("stroke=\"#ff0000\"", line)
          /\ ~Contains("stroke=\"#646464\"", line)
       THEN ReplacePrepend(line, "stroke-width=", STROKE_BLACK)
       ELSE line
  ELSE line

ISOPipes_fill(line) ==
  IF ~Contains("fill=", line)
     /\ (Contains("stroke=", line) \/ Contains("stroke-width=", line))
  THEN fill_first_tag(shape_tags_7, line, FILL_NONE)
  ELSE line

\* ISOPipes_marker without the tests 'fill=' not in line
ISOPipes_marker_unguarded(line) ==
  IF Contains("<marker", line) \/ Contains("marker-", line)
  THEN IF Contains("<polygon", line)
       THEN ReplaceAppend(line, "<polygon", FILL_BLACK)
       ELSE IF Contains("<path", line) /\ Contains("Z", line)
       THEN ReplaceAppend(line, "<path", FILL_BLACK)
       ELSE line
  ELSE line

\* "Special handling for markers and arrows", after the fill above
ISOPipes_marker(line) ==
  IF Contains("<marker", line) \/ Contains("marker-", line)
  THEN IF ~Contains("fill=", line) /\ Contains("<polygon", line)
       THEN ReplaceAppend(line, "<polygon", FILL_BLACK)
       ELSE IF ~Contains("fill=", line) /\ Contains("<path", line)
               /\ Contains("Z", line)
       THEN ReplaceAppend(line, "<path", FILL_BLACK)
       ELSE line
  ELSE line

ISOPipes_line(line) ==
  IF is_shape(shape_tags_7, line)
  THEN ISOPipes_marker(ISOPipes_fill(ISOPipes_stroke(line)))
  ELSE line

(***************************************************************************)
(* ISO instruments.                                                        *)
(***************************************************************************)
ISOInstruments_stroke(line) ==
  IF Contains("stroke-width=", line) /\ ~Contains("stroke=", line)
     /\ ~Contains("stroke=\"#ff0000\"", line)
  THEN IF ~Contains("stroke=\"#000000\"", line)
       THEN ReplacePrepend(line, "stroke-width=", STROKE_BLACK)
       ELSE line
  ELSE line

ISOInstruments_fill(line) ==
  IF ~Contains("fill=", line)
     /\ (Contains("stroke=", line) \/ Contains("stroke-width=", line))
  THEN IF Contains("stroke=\"#ff0000\"", line)
       THEN fill_first_tag(shape_tags_6, line, FILL_NONE)
       ELSE IF Contains("<ellipse", line) \/ Contains("<circle", line)
       THEN IF ~Contains("fill=\"#ffffff\"", line)
               /\ ~Contains("fill=\"#000000\"", line)
            THEN ReplaceAppend(ReplaceAppend(line, "<ellipse", FILL_WHITE),
                               "<circle", FILL_WHITE)
            ELSE line
       ELSE IF Contains("<rect", line)
       THEN IF ~Contains("fill=\"#ffffff\"", line)
               /\ ~Contains("fill=\"#000000\"", line)
            THEN ReplaceAppend(line, "<rect", FILL_WHITE)
            ELSE line
       ELSE IF Contains("<polygon", line) \/ Contains("<path", line)
       THEN IF Contains("Z", line) \/ Contains("<polygon", line)
            THEN IF ~Contains("fill=\"#ffffff\"", line)
                    /\ ~Contains("fill=\"#000000\"", line)
                 THEN fill_first_tag(shape_tags_6, line, FILL_WHITE)
                 ELSE line
            ELSE fill_first_tag(shape_tags_6, line, FILL_NONE)
       ELSE fill_first_tag(shape_tags_6, line, FILL_NONE)
  ELSE line

ISOInstruments_line(line) ==
  IF is_shape(shape_tags_6, line)
  THEN ISOInstruments_fill(ISOInstruments_stroke(line))
  ELSE line

(***************************************************************************)
(* PIP valves.                                                             *)
(***************************************************************************)
PIPValves_stroke(line) ==
  IF Contains("stroke-width=", line) /\ ~Contains("stroke=", line)
  THEN IF ~Contains("stroke=\"#ff0000\"", line)
          /\ ~Contains("stroke=\"#", line)
       THEN ReplacePrepend(line, "stroke-width=", STROKE_BLACK)
       ELSE line
  ELSE line

PIPValves_fill(line) ==
  IF ~Contains("fill=", line)
     /\ (Contains("stroke=", line) \/ Contains("stroke-width=", line))
  THEN IF Contains("stroke=\"#ff0000\"", line)
       THEN fill_first_tag(shape_tags_7, line, FILL_NONE)
       ELSE IF Contains("<path", line)
       THEN IF Contains("Z", line) \/ Contains("z", line)
            THEN ReplaceAppend(line, "<path", FILL_WHITE)
            ELSE ReplaceAppend(line, "<path", FILL_NONE)
       ELSE IF Contains("<polygon", line)
       THEN ReplaceAppend(line, "<polygon", FILL_WHITE)
       ELSE IF Contains("<circle", line)
       THEN ReplaceAppend(line, "<circle", FILL_WHITE)
       ELSE IF Contains("<ellipse", line)
       THEN ReplaceAppend(line, "<ellipse", FILL_WHITE)
       ELSE IF Contains("<rect", line)
       THEN ReplaceAppend(line, "<rect", FILL_WHITE)
       ELSE IF Contains("<line", line) \/ Contains("<polyline", line)
       THEN ReplaceAppend(ReplaceAppend(line, "<line", FILL_NONE),
                          "<polyline", FILL_NONE)
       ELSE fill_first_tag(shape_tags_7, line, FILL_NONE)
  ELSE line

PIPValves_line(line) ==
  IF is_shape(shape_tags_7, line)
  THEN PIPValves_fill(PIPValves_stroke(line))
  ELSE line

(***************************************************************************)
(* PIP pipes and signal lines.                                             *)
(***************************************************************************)
PIPPipes_stroke(line) ==
  IF Contains("stroke-width=", line) /\ ~Contains("stroke=", line)
  THEN IF ~Contains("stroke=\"#ff0000\"", line)
          /\ ~Contains("stroke=\"#", line)
       THEN ReplacePrepend(line, "stroke-width=", STROKE_BLACK)
       ELSE line
  ELSE line

PIPPipes_fill(line) ==
  IF ~Contains("fill=", line)
     /\ (Contains("stroke=", line) \/ Contains("stroke-width=", line))
  THEN IF Contains("stroke=\"#ff0000\"", line)
       THEN fill_first_tag(shape_tags_7, line, FILL_NONE)
       ELSE IF Contains("<circle", line)
       THEN IF Contains("r=\"1\"", line) \/ Contains("r=\"2\"", line)
               \/ Contains("r=\"3\"", line)
            THEN ReplaceAppend(line, "<circle", FILL_BLACK)
            ELSE ReplaceAppend(line, "<circle", FILL_WHITE)
       ELSE IF Contains("<polygon", line)
       THEN ReplaceAppend(line, "<polygon", FILL_BLACK)
       ELSE IF Contains("<path", line)
       THEN IF Contains("Z", line) \/ Contains("z", line)
            THEN IF Contains("M", line)
                    /\ (Contains("L", line) \/ Contains("l", line))
                 THEN ReplaceAppend(line, "<path", FILL_BLACK)
                 ELSE ReplaceAppend(line, "<path", FILL_NONE)
            ELSE ReplaceAppend(line, "<path", FILL_NONE)
       ELSE IF Contains("<line", line) \/ Contains("<polyline", line)
       THEN ReplaceAppend(ReplaceAppend(line, "<line", FILL_NONE),
                          "<polyline", FILL_NONE)
       ELSE IF Contains("<rect", line)
       THEN ReplaceAppend(line, "<rect", FILL_WHITE)
       ELSE IF Contains("<ellipse", line)
       THEN ReplaceAppend(line, "<ellipse", FILL_WHITE)
       ELSE fill_first_tag(shape_tags_7, line, FILL_NONE)
  ELSE line

PIPPipes_line(line) ==
  IF is_shape(shape_tags_7, line)
  THEN PIPPipes_fill(PIPPipes_stroke(line))
  ELSE line

(***************************************************************************)
(* PIP instruments.                                                        *)
(***************************************************************************)
PIPInstruments_stroke(line) ==
  IF Contains("stroke-width=", line) /\ ~Contains("stroke=", line)
  THEN IF ~Contains("stroke=\"#ff0000\"", line)
          /\ ~Contains("stroke=\"#", line)
       THEN ReplacePrepend(line, "stroke-width=", STROKE_BLACK)
       ELSE line
  ELSE line

PIPInstruments_fill(line) ==
  IF ~Contains("fill=", line)
     /\ (Contains("stroke=", line) \/ Contains("stroke-width=", line))
  THEN IF Contains("stroke=\"#ff0000\"", line)
       THEN fill_first_tag(shape_tags_7, line, FILL_NONE)
       ELSE IF Contains("<circle", line)
       THEN ReplaceAppend(line, "<circle", FILL_WHITE)
       ELSE IF Contains("<ellipse", line)
       THEN ReplaceAppend(line, "<ellipse", FILL_WHITE)
       ELSE IF Contains("<rect", line)
       THEN ReplaceAppend(line, "<rect", FILL_WHITE)
       ELSE IF Contains("<path", line)
       THEN IF Contains("Z", line) \/ Contains("z", line)
            THEN ReplaceAppend(line, "<path", FILL_WHITE)
            ELSE ReplaceAppend(line, "<path", FILL_NONE)
       ELSE IF Contains("<polygon", line)
       THEN ReplaceAppend(line, "<polygon", FILL_WHITE)
       ELSE IF Contains("<line", line) \/ Contains("<polyline", line)
       THEN ReplaceAppend(ReplaceAppend(line, "<line", FILL_NONE),
                          "<polyline", FILL_NONE)
       ELSE fill_first_tag(shape_tags_7, line, FILL_NONE)
  ELSE line

PIPInstruments_line(line) ==
  IF is_shape(shape_tags_7, line)
  THEN PIPInstruments_fill(PIPInstruments_stroke(line))
  ELSE line

(***************************************************************************)
(* PIP fittings.                                                           *)
(***************************************************************************)
PIPFittings_stroke(line) ==
  IF Contains("stroke-width=", line) /\ ~Contains("stroke=", line)
  THEN IF ~Contains("stroke=\"#ff0000\"", line)
          /\ ~Contains("stroke=\"#", line)
       THEN ReplacePrepend(line, "stroke-width=", STROKE_BLACK)
       ELSE line
  ELSE line

\* PIPFittings_fill with the closed-path test lost: every path is filled white
PIPFittings_fill_open_white(line) ==
  IF ~Contains("fill=", line)
     /\ (Contains("stroke=", line) \/ Contains("stroke-width=", line))
  THEN IF Contains("stroke=\"#ff0000\"", line)
       THEN fill_first_tag(shape_tags_7, line, FILL_NONE)
       ELSE IF Contains("<path", line)
       THEN ReplaceAppend(line, "<path", FILL_WHITE)
       ELSE IF Contains("<polygon", line)
       THEN ReplaceAppend(line, "<polygon", FILL_WHITE)
       ELSE IF Contains("<circle", line) \/ Contains("<ellipse", line)
       THEN ReplaceAppend(ReplaceAppend(line, "<circle", FILL_WHITE),
                          "<ellipse", FILL_WHITE)
       ELSE IF Contains("<rect", line)
       THEN ReplaceAppend(line, "<rect", FILL_WHITE)
       ELSE IF Contains("<line", line)
       THEN ReplaceAppend(line, "<line", FILL_NONE)
       ELSE fill_first_tag(shape_tags_7, line, FILL_NONE)
  ELSE line

PIPFittings_fill(line) ==
  IF ~Contains("fill=", line)
     /\ (Contains("stroke=", line) \/ Contains("stroke-width=", line))
  THEN IF Contains("stroke=\"#ff0000\"", line)
       THEN fill_first_tag(shape_tags_7, line, FILL_NONE)
       ELSE IF Contains("<path", line)
       THEN IF Contains("Z", line) \/ Contains("z", line)
            THEN ReplaceAppend(line, "<path", FILL_WHITE)
            ELSE ReplaceAppend(line, "<path", FILL_NONE)
       ELSE IF Contains("<polygon", line)
       THEN ReplaceAppend(line, "<polygon", FILL_WHITE)
       ELSE IF Contains("<circle", line) \/ Contains("<ellipse", line)
       THEN ReplaceAppend(ReplaceAppend(line, "<circle", FILL_WHITE),
                          "<ellipse", FILL_WHITE)
       ELSE IF Contains("<rect", line)
       THEN ReplaceAppend(line, "<rect", FILL_WHITE)
       ELSE IF Contains("<line", line)
       THEN ReplaceAppend(line, "<line", FILL_NONE)
       ELSE fill_first_tag(shape_tags_7, line, FILL_NONE)
  ELSE line

PIPFittings_line(line) ==
  IF is_shape(shape_tags_7, line)
  THEN PIPFittings_fill(PIPFittings_stroke(line))
  ELSE line

(***************************************************************************)
(* The loop body of the extractor in use.                                  *)
(***************************************************************************)
Families ==
  {"ISOValves", "ISOPipes", "ISOInstruments",
   "PIPValves", "PIPPipes", "PIPInstruments", "PIPFittings"}

clean_line(fam, line) ==
  CASE fam = "ISOValves" -> ISOValves_line(line)
    [] fam = "ISOPipes" -> ISOPipes_line(line)
    [] fam = "ISOInstruments" -> ISOInstruments_line(line)
    [] fam = "PIPValves" -> PIPValves_line(line)
    [] fam = "PIPPipes" -> PIPPipes_line(line)
    [] fam = "PIPInstruments" -> PIPInstruments_line(line)
    [] fam = "PIPFittings" -> PIPFittings_line(line)

(***************************************************************************)
(* The fragments the normalizer is run on: one svg element holding one     *)
(* shape element, optionally behind sibling elements.                      *)
(***************************************************************************)
Shapes ==
  {<<T_PATH, d>> : d \in {D_OPEN, D_CLOSED, D_CLOSED_LC, D_CLOSED_HV}}
  \cup {<<T_CIRCLE, r>> : r \in {R_2, R_3, R_2_5, R_5}}
  \cup {<<t>> : t \in {T_RECT, T_ELLIPSE, T_POLYGON, T_POLYLINE, T_LINE}}

Strokes == {<<>>, <<STROKE_RED>>, <<STROKE_BLACK>>}
Widths == {<<>>, <<STROKE_WIDTH>>}
Fills == {<<>>, <<FILL_NONE>>, <<FILL_BLACK>>}
Extras == {<<>>, <<ID_ZONE>>, <<MARKER_END>>}
VendorExtras == {<<V_UNIT>>, <<TITLE_ESC>>, <<INK_LABEL>>}

Element(shape, extra, stroke, width, fill) ==
  shape \o extra \o stroke \o width \o fill \o <<SLASH, GT>>

PlainElements ==
  {Element(sh, e, st, w, f) :
     sh \in Shapes, e \in Extras, st \in Strokes, w \in Widths, f \in Fills}

VendorElements ==
  {Element(sh, e, st, w, <<>>) :
     sh \in Shapes, e \in VendorExtras, st \in {<<>>, <<STROKE_BLACK>>},
     w \in Widths}

ProbeElements ==
  {Element(<<T_PATH, D_CLOSED>>, <<>>, <<>>, <<STROKE_WIDTH>>, <<>>),
   Element(<<T_PATH, D_OPEN>>, <<>>, <<STROKE_BLACK>>, <<>>, <<>>),
   Element(<<T_LINE>>, <<>>, <<STROKE_RED>>, <<>>, <<>>),
   Element(<<T_CIRCLE, R_2>>, <<>>, <<STROKE_BLACK>>, <<>>, <<FILL_NONE>>)}

\* an element using xlink:href, a shape element, and character data
Siblings ==
  {<<T_USE, XLINK_HREF, SLASH, GT>>,
   <<T_POLYGON, STROKE_WIDTH, SLASH, GT>>,
   <<TEXT_ZONE>>}

RECURSIVE SiblingRuns(_)
\* the runs of at most n siblings
SiblingRuns(n) ==
  IF n = 0 THEN {<<>>}
  ELSE SiblingRuns(n - 1)
       \cup {r \o s : r \in SiblingRuns(n - 1), s \in Siblings}

RootAttributes == {<<>>, <<XMLNS>>, <<XMLNS_XLINK>>, <<XMLNS, XMLNS_XLINK>>}
Declarations == {<<>>, <<XML_DECL, GT, NL>>}

Document(decl, attrs, body) ==
  decl \o <<SVG>> \o attrs \o <<GT>> \o body \o <<SVG_END, GT>>

Inputs ==
  {Document(<<>>, <<>>, e) : e \in PlainElements \cup VendorElements}
  \cup {Document(d, a, r \o e) :
          d \in Declarations, a \in RootAttributes,
          r \in SiblingRuns(MaxSiblings), e \in ProbeElements}

(***************************************************************************)
(* clean_svg_content as a state machine: one step per statement, one step  *)
(* per turn of the loop.                                                   *)
(***************************************************************************)
Init ==
  /\ family \in Families
  /\ raw \in Inputs
  /\ svg_content = raw
  /\ lines = <<>>
  /\ fixed_lines = <<>>
  /\ pc = "strip"
  /\ results = <<>>
  /\ json_file = [loadable |-> FALSE, catalog |-> <<>>]
  /\ svg_file = [readable |-> FALSE, content |-> <<>>]
  /\ args = [extract_names |-> FALSE, create_csv |-> FALSE,
             analyze |-> FALSE, convert_png |-> FALSE]
  /\ installed = {}
  /\ png_dir = [created |-> FALSE, files |-> {}]
  /\ conversion = [tool |-> "None", todo |-> <<>>, attempts |-> <<>>,
                   converted_count |-> 0, png_count |-> 0]
  /\ symbol_data = <<>>
  /\ symbol_names = <<>>
  /\ has_names = FALSE
  /\ output_dir = [created |-> FALSE, files |-> <<>>]
  /\ csv_file = [written |-> FALSE, lines |-> <<>>]
  /\ todo = <<>>
  /\ extracted_count = 0
  /\ called = <<>>
  /\ exit_code = -1
  /\ rpc = "idle"

\* the strip step handing over to the namespace step, past the unescaping
StripVendorAttributes_then_xmlns ==
  /\ pc = "strip"
  /\ svg_content' = re_sub_vendor(svg_content)
  /\ pc' = "xmlns"
  /\ UNCHANGED <<family, raw, lines, fixed_lines, results>>
  /\ UNCHANGED run_vars

StripVendorAttributes ==
  /\ pc = "strip"
  /\ svg_content' = re_sub_vendor(svg_content)
  /\ pc' = "unescape"
  /\ UNCHANGED <<family, raw, lines, fixed_lines, results>>
  /\ UNCHANGED run_vars

FixEntities ==
  /\ pc = "unescape"
  /\ svg_content' = replace_quot(svg_content)
  /\ pc' = "xmlns"
  /\ UNCHANGED <<family, raw, lines, fixed_lines, results>>
  /\ UNCHANGED run_vars

AddXmlns ==
  /\ pc = "xmlns"
  /\ svg_content' = add_xmlns(svg_content)
  /\ pc' = "xlink"
  /\ UNCHANGED <<family, raw, lines, fixed_lines, results>>
  /\ UNCHANGED run_vars

AddXlink ==
  /\ pc = "xlink"
  /\ svg_content' = add_xlink(svg_content)
  /\ pc' = "split"
  /\ UNCHANGED <<family, raw, lines, fixed_lines, results>>
  /\ UNCHANGED run_vars

SplitLines ==
  /\ pc = "split"
  /\ lines' = Split(svg_content)
  /\ fixed_lines' = <<>>
  /\ pc' = "loop"
  /\ UNCHANGED <<family, raw, svg_content, results>>
  /\ UNCHANGED run_vars

FixLine ==
  /\ pc = "loop"
  /\ lines # <<>>
  /\ fixed_lines' = Append(fixed_lines, clean_line(family, Head(lines)))
  /\ lines' = Tail(lines)
  /\ UNCHANGED <<family, raw, svg_content, pc, results>>
  /\ UNCHANGED run_vars

JoinLines ==
  /\ pc = "loop"
  /\ lines = <<>>
  /\ svg_content' = Join(fixed_lines)
  /\ pc' = "declaration"
  /\ UNCHANGED <<family, raw, lines, fixed_lines, results>>
  /\ UNCHANGED run_vars

AddXmlDeclaration ==
  /\ pc = "declaration"
  /\ svg_content' = add_xml_declaration(svg_content)
  /\ results' = Append(results, svg_content')
  /\ pc' = "done"
  /\ UNCHANGED <<family, raw, lines, fixed_lines>>
  /\ UNCHANGED run_vars

\* the normalizer is called again on what it returned
CleanAgain ==
  /\ pc = "done"
  /\ Len(results) < MaxPass
  /\ lines' = <<>>
  /\ fixed_lines' = <<>>
  /\ pc' = "strip"
  /\ UNCHANGED <<family, raw, svg_content, results>>
  /\ UNCHANGED run_vars

Next ==
  \/ StripVendorAttributes
  \/ FixEntities
  \/ AddXmlns
  \/ AddXlink
  \/ SplitLines
  \/ FixLine
  \/ JoinLines
  \/ AddXmlDeclaration
  \/ CleanAgain

Spec == Init /\ [][Next]_vars

(***************************************************************************)
(* The run of one extractor: main, run, load_json_data,                    *)
(* extract_symbol_names, extract_symbols, create_reference_csv.            *)
(*                                                                         *)
(* Names, keys and titles are texts of their own kind: sequences of        *)
(* one-character strings, so that int, str, lower, 'x' in name and the     *)
(* regular expressions of clean_filename work on the characters. The two   *)
(* strings "U+0130" and "U+0307" stand for one character each: the capital *)
(* I with dot above, which is a letter, and the combining dot above, which *)
(* is neither a word character nor white space.                            *)
(***************************************************************************)
\* how many keys of the longest catalog lie past the predefined table
MaxExtra == 1

\* the most symbols of a catalog that a run with --png is started on
MaxPngFiles == 3

DigitChars == <<"0", "1", "2", "3", "4", "5", "6", "7", "8", "9">>

RECURSIVE str(_)
\* Python: str(n), f"{n}" for a natural number
str(n) ==
  IF n < 10 THEN <<DigitChars[n + 1]>>
  ELSE str(n \div 10) \o <<DigitChars[(n % 10) + 1]>>

RECURSIVE int(_)
\* Python: int(key) for a text of decimal digits
int(key) ==
  IF key = <<>> THEN 0
  ELSE int(SubSeq(key, 1, Len(key) - 1)) * 10
       + (CHOOSE d \in 0..9 : DigitChars[d + 1] = key[Len(key)])

\* f"{idx}" without the padding of 03d
format_unpadded(idx) == str(idx)

\* Python: f"{idx:03d}"
format_03d(idx) ==
  [i \in 1..(3 - Len(str(idx))) |-> "0"] \o str(idx)

UpperChars ==
  <<"A", "B", "C", "D", "E", "F", "G", "H", "I", "J", "K", "L", "M",
    "N", "O", "P", "Q", "R", "S", "T", "U", "V", "W", "X", "Y", "Z">>

LowerChars ==
  <<"a", "b", "c", "d", "e", "f", "g", "h", "i", "j", "k", "l", "m",
    "n", "o", "p", "q", "r", "s", "t", "u", "v", "w", "x", "y", "z">>

RECURSIVE lower(_)
\* Python: name.lower(); the lowercase of U+0130 is i followed by U+0307
lower(s) ==
  IF s = <<>> THEN <<>>
  ELSE (IF \E k \in 1..Len(UpperChars) : UpperChars[k] = Head(s)
        THEN <<LowerChars[CHOOSE k \in 1..Len(UpperChars) :
                            UpperChars[k] = Head(s)]>>
        ELSE IF Head(s) = "U+0130" THEN <<"i", "U+0307">>
        ELSE <<Head(s)>>)
       \o lower(Tail(s))

\* the characters \w and \s of the regular expressions
IsWordChar(c) ==
  \/ \E k \in 1..Len(UpperChars) : c = UpperChars[k] \/ c = LowerChars[k]
  \/ \E k \in 1..Len(DigitChars) : c = DigitChars[k]
  \/ c = "_"
  \/ c = "U+0130"

IsSpaceChar(c) == c \in {" ", "\t", "\n"}

\* Python: sub in s
IsInfix(sub, s) ==
  \E i \in 0..(Len(s) - Len(sub)) : SubSeq(s, i + 1, i + Len(sub)) = sub

\* Python: s.split(sep)[0]
BeforeFirst(s, sep) ==
  IF ~IsInfix(sep, s) THEN s
  ELSE LET i == CHOOSE j \in 0..(Len(s) - Len(sep)) :
                  /\ SubSeq(s, j + 1, j + Len(sep)) = sep
                  /\ \A h \in 0..(j - 1) : SubSeq(s, h + 1, h + Len(sep)) # sep
       IN SubSeq(s, 1, i)

RECURSIVE RemoveAll(_, _)
\* Python: s.replace(sub, '')
RemoveAll(s, sub) ==
  IF Len(s) < Len(sub) THEN s
  ELSE IF SubSeq(s, 1, Len(sub)) = sub
  THEN RemoveAll(SubSeq(s, Len(sub) + 1, Len(s)), sub)
  ELSE <<Head(s)>> \o RemoveAll(Tail(s), sub)

\* Python: s.split()[0], for a text that holds a word
FirstWord(s) ==
  LET first == CHOOSE i \in 1..Len(s) :
                 /\ ~IsSpaceChar(s[i])
                 /\ \A j \in 1..(i - 1) : IsSpaceChar(s[j])
      last == CHOOSE i \in first..Len(s) :
                /\ \A j \in first..i : ~IsSpaceChar(s[j])
                /\ i = Len(s) \/ IsSpaceChar(s[i + 1])
  IN SubSeq(s, first, last)

RECURSIVE CollapseSeparators(_)
\* re.sub(r'[-\s]+', '_', name): a run of hyphens and white space becomes
\* one '_'
CollapseSeparators(s) ==
  LET separator(c) == c = "-" \/ IsSpaceChar(c)
      RECURSIVE skip(_)
      skip(t) == IF t # <<>> /\ separator(Head(t)) THEN skip(Tail(t)) ELSE t
  IN IF s = <<>> THEN <<>>
     ELSE IF separator(Head(s)) THEN <<"_">> \o CollapseSeparators(skip(s))
     ELSE <<Head(s)>> \o CollapseSeparators(Tail(s))

\* clean_filename without its last statement
clean_filename_keeps_case(name) ==
  CollapseSeparators(
    SelectSeq(name, LAMBDA c : IsWordChar(c) \/ IsSpaceChar(c) \/ c = "-"))

\* clean_filename: re.sub(r'[^\w\s-]', '', name), then the separators, then
\* lower()
clean_filename(name) ==
  lower(CollapseSeparators(
          SelectSeq(name,
                    LAMBDA c : IsWordChar(c) \/ IsSpaceChar(c) \/ c = "-")))

\* self.predefined_names: the name of key "i" stands at place i + 1
ISOValves_predefined_names ==
  <<
    <<"G", "a", "t", "e", " ", "V", "a", "l", "v", "e">>,
    <<"G", "l", "o", "b", "e", " ", "V", "a", "l", "v", "e">>,
    <<"B", "a", "l", "l", " ", "V", "a", "l", "v", "e">>,
    <<"B", "u", "t", "t", "e", "r", "f", "l", "y", " ", "V", "a", "l", "v",
      "e">>,
    <<"C", "h", "e", "c", "k", " ", "V", "a", "l", "v", "e">>,
    <<"C", "h", "e", "c", "k", " ", "V", "a", "l", "v", "e", " ", "-", " ",
      "S", "p", "r", "i", "n", "g", " ", "L", "o", "a", "d", "e", "d">>,
    <<"P", "l", "u", "g", " ", "V", "a", "l", "v", "e">>,
    <<"D", "i", "a", "p", "h", "r", "a", "g", "m", " ", "V", "a", "l", "v",
      "e">>,
    <<"N", "e", "e", "d", "l", "e", " ", "V", "a", "l", "v", "e">>,
    <<"A", "n", "g", "l", "e", " ", "V", "a", "l", "v", "e">>,
    <<"T", "h", "r", "e", "e", "-", "W", "a", "y", " ", "V", "a", "l", "v",
      "e">>,
    <<"F", "o", "u", "r", "-", "W", "a", "y", " ", "V", "a", "l", "v", "e">>,
    <<"R", "e", "l", "i", "e", "f", " ", "V", "a", "l", "v", "e">>,
    <<"S", "a", "f", "e", "t", "y", " ", "V", "a", "l", "v", "e">>,
    <<"P", "r", "e", "s", "s", "u", "r", "e", " ", "R", "e", "d", "u", "c",
      "i", "n", "g", " ", "V", "a", "l", "v", "e">>,
    <<"C", "o", "n", "t", "r", "o", "l", " ", "V", "a", "l", "v", "e">>,
    <<"C", "o", "n", "t", "r", "o", "l", " ", "V", "a", "l", "v", "e", " ",
      "-", " ", "P", "n", "e", "u", "m", "a", "t", "i", "c">>,
    <<"C", "o", "n", "t", "r", "o", "l", " ", "V", "a", "l", "v", "e", " ",
      "-", " ", "E", "l", "e", "c", "t", "r", "i", "c">>,
    <<"C", "o", "n", "t", "r", "o", "l", " ", "V", "a", "l", "v", "e", " ",
      "-", " ", "H", "y", "d", "r", "a", "u", "l", "i", "c">>,
    <<"S", "o", "l", "e", "n", "o", "i", "d", " ", "V", "a", "l", "v", "e">>,
    <<"F", "l", "o", "a", "t", " ", "V", "a", "l", "v", "e">>,
    <<"K", "n", "i", "f", "e", " ", "G", "a", "t", "e", " ", "V", "a", "l",
      "v", "e">>,
    <<"P", "i", "n", "c", "h", " ", "V", "a", "l", "v", "e">>,
    <<"R", "o", "t", "a", "r", "y", " ", "V", "a", "l", "v", "e">>
  >>

\* self.predefined_names: the name of key "i" stands at place i + 1
ISOPipes_predefined_names ==
  <<
    <<"P", "r", "o", "c", "e", "s", "s", " ", "L", "i", "n", "e", " ", "-",
      " ", "S", "o", "l", "i", "d">>,
    <<"P", "r", "o", "c", "e", "s", "s", " ", "L", "i", "n", "e", " ", "-",
      " ", "H", "e", "a", "v", "y">>,
    <<"P", "r", "o", "c", "e", "s", "s", " ", "L", "i", "n", "e", " ", "-",
      " ", "M", "e", "d", "i", "u", "m">>,
    <<"P", "r", "o", "c", "e", "s", "s", " ", "L", "i", "n", "e", " ", "-",
      " ", "L", "i", "g", "h", "t">>,
    <<"U", "t", "i", "l", "i", "t", "y", " ", "L", "i", "n", "e", " ", "-",
      " ", "A", "i", "r">>,
    <<"U", "t", "i", "l", "i", "t", "y", " ", "L", "i", "n", "e", " ", "-",
      " ", "W", "a", "t", "e", "r">>,
    <<"U", "t", "i", "l", "i", "t", "y", " ", "L", "i", "n", "e", " ", "-",
      " ", "S", "t", "e", "a", "m">>,
    <<"U", "t", "i", "l", "i", "t", "y", " ", "L", "i", "n", "e", " ", "-",
      " ", "G", "a", "s">>,
    <<"E", "l", "e", "c", "t", "r", "i", "c", "a", "l", " ", "S", "i", "g",
      "n", "a", "l", " ", "-", " ", "B", "a", "s", "i", "c">>,
    <<"E", "l", "e", "c", "t", "r", "i", "c", "a", "l", " ", "S", "i", "g",
      "n", "a", "l", " ", "-", " ", "P", "o", "w", "e", "r">>,
    <<"P", "n", "e", "u", "m", "a", "t", "i", "c", " ", "S", "i", "g", "n",
      "a", "l">>,
    <<"H", "y", "d", "r", "a", "u", "l", "i", "c", " ", "S", "i", "g", "n",
      "a", "l">>,
    <<"C", "a", "p", "i", "l", "l", "a", "r", "y", " ", "T", "u", "b", "e">>,
    <<"P", "r", "o", "c", "e", "s", "s", " ", "L", "i", "n", "e", " ", "-",
      " ", "I", "n", "s", "u", "l", "a", "t", "e", "d">>,
    <<"P", "r", "o", "c", "e", "s", "s", " ", "L", "i", "n", "e", " ", "-",
      " ", "T", "r", "a", "c", "e", "d">>,
    <<"P", "r", "o", "c", "e", "s", "s", " ", "L", "i", "n", "e", " ", "-",
      " ", "J", "a", "c", "k", "e", "t", "e", "d">>,
    <<"U", "n", "d", "e", "r", "g", "r", "o", "u", "n", "d", " ", "L", "i",
      "n", "e">>,
    <<"P", "r", "o", "c", "e", "s", "s", " ", "L", "i", "n", "e", " ", "-",
      " ", "F", "u", "t", "u", "r", "e">>,
    <<"P", "r", "o", "c", "e", "s", "s", " ", "L", "i", "n", "e", " ", "-",
      " ", "E", "x", "i", "s", "t", "i", "n", "g">>,
    <<"S", "o", "f", "t", "w", "a", "r", "e", " ", "L", "i", "n", "k">>,
    <<"M", "e", "c", "h", "a", "n", "i", "c", "a", "l", " ", "L", "i", "n",
      "k">>,
    <<"P", "r", "o", "c", "e", "s", "s", " ", "C", "o", "n", "n", "e", "c",
      "t", "i", "o", "n", " ", "-", " ", "S", "o", "c", "k", "e", "t", " ",
      "W", "e", "l", "d">>,
    <<"P", "r", "o", "c", "e", "s", "s", " ", "C", "o", "n", "n", "e", "c",
      "t", "i", "o", "n", " ", "-", " ", "S", "c", "r", "e", "w", "e", "d">>,
    <<"P", "r", "o", "c", "e", "s", "s", " ", "C", "o", "n", "n", "e", "c",
      "t", "i", "o", "n", " ", "-", " ", "F", "l", "a", "n", "g", "e", "d">>,
    <<"P", "r", "o", "c", "e", "s", "s", " ", "C", "o", "n", "n", "e", "c",
      "t", "i", "o", "n", " ", "-", " ", "S", "o", "l", "d", "e", "r", "e",
      "d">>,
    <<"L", "i", "n", "e", " ", "C", "r", "o", "s", "s", "i", "n", "g", " ",
      "-", " ", "N", "o", " ", "C", "o", "n", "n", "e", "c", "t", "i", "o",
      "n">>,
    <<"L", "i", "n", "e", " ", "C", "r", "o", "s", "s", "i", "n", "g", " ",
      "-", " ", "C", "o", "n", "n", "e", "c", "t", "e", "d">>,
    <<"F", "l", "o", "w", " ", "D", "i", "r", "e", "c", "t", "i", "o", "n",
      " ", "-", " ", "R", "i", "g", "h", "t">>,
    <<"F", "l", "o", "w", " ", "D", "i", "r", "e", "c", "t", "i", "o", "n",
      " ", "-", " ", "L", "e", "f", "t">>,
    <<"F", "l", "o", "w", " ", "D", "i", "r", "e", "c", "t", "i", "o", "n",
      " ", "-", " ", "U", "p">>,
    <<"F", "l", "o", "w", " ", "D", "i", "r", "e", "c", "t", "i", "o", "n",
      " ", "-", " ", "D", "o", "w", "n">>,
    <<"F", "l", "o", "w", " ", "D", "i", "r", "e", "c", "t", "i", "o", "n",
      " ", "-", " ", "B", "i", "d", "i", "r", "e", "c", "t", "i", "o", "n",
      "a", "l">>,
    <<"S", "i", "g", "n", "a", "l", " ", "L", "i", "n", "e", " ", "-", " ",
      "D", "a", "s", "h", "e", "d">>,
    <<"S", "i", "g", "n", "a", "l", " ", "L", "i", "n", "e", " ", "-", " ",
      "D", "o", "t", "t", "e", "d">>,
    <<"S", "i", "g", "n", "a", "l", " ", "L", "i", "n", "e", " ", "-", " ",
      "C", "h", "a", "i", "n">>,
    <<"S", "i", "g", "n", "a", "l", " ", "L", "i", "n", "e", " ", "-", " ",
      "D", "o", "u", "b", "l", "e">>,
    <<"P", "r", "o", "c", "e", "s", "s", " ", "L", "i", "n", "e", " ", "-",
      " ", "P", "r", "i", "m", "a", "r", "y">>,
    <<"P", "r", "o", "c", "e", "s", "s", " ", "L", "i", "n", "e", " ", "-",
      " ", "S", "e", "c", "o", "n", "d", "a", "r", "y">>,
    <<"P", "r", "o", "c", "e", "s", "s", " ", "L", "i", "n", "e", " ", "-",
      " ", "T", "e", "r", "t", "i", "a", "r", "y">>,
    <<"I", "n", "s", "t", "r", "u", "m", "e", "n", "t", " ", "A", "i", "r",
      " ", "L", "i", "n", "e">>,
    <<"N", "i", "t", "r", "o", "g", "e", "n", " ", "L", "i", "n", "e">>,
    <<"V", "a", "c", "u", "u", "m", " ", "L", "i", "n", "e">>,
    <<"D", "r", "a", "i", "n", " ", "L", "i", "n", "e">>,
    <<"V", "e", "n", "t", " ", "L", "i", "n", "e">>,
    <<"S", "a", "m", "p", "l", "e", " ", "L", "i", "n", "e">>,
    <<"P", "r", "o", "c", "e", "s", "s", " ", "L", "i", "n", "e", " ", "-",
      " ", "H", "a", "z", "a", "r", "d", "o", "u", "s">>,
    <<"P", "r", "o", "c", "e", "s", "s", " ", "L", "i", "n", "e", " ", "-",
      " ", "N", "o", "n", "-", "H", "a", "z", "a", "r", "d", "o", "u", "s">>,
    <<"C", "o", "o", "l", "i", "n", "g", " ", "W", "a", "t", "e", "r", " ",
      "S", "u", "p", "p", "l", "y">>,
    <<"C", "o", "o", "l", "i", "n", "g", " ", "W", "a", "t", "e", "r", " ",
      "R", "e", "t", "u", "r", "n">>,
    <<"S", "t", "e", "a", "m", " ", "S", "u", "p", "p", "l", "y">>,
    <<"S", "t", "e", "a", "m", " ", "C", "o", "n", "d", "e", "n", "s", "a",
      "t", "e">>,
    <<"F", "i", "r", "e", " ", "P", "r", "o", "t", "e", "c", "t", "i", "o",
      "n", " ", "L", "i", "n", "e">>,
    <<"P", "r", "o", "c", "e", "s", "s", " ", "L", "i", "n", "e", " ", "-",
      " ", "S", "l", "o", "p", "e", "d">>,
    <<"P", "r", "o", "c", "e", "s", "s", " ", "L", "i", "n", "e", " ", "-",
      " ", "V", "e", "r", "t", "i", "c", "a", "l">>,
    <<"P", "r", "o", "c", "e", "s", "s", " ", "L", "i", "n", "e", " ", "-",
      " ", "H", "o", "r", "i", "z", "o", "n", "t", "a", "l">>,
    <<"S", "i", "g", "n", "a", "l", " ", "L", "i", "n", "e", " ", "-", " ",
      "B", "i", "n", "a", "r", "y">>,
    <<"S", "i", "g", "n", "a", "l", " ", "L", "i", "n", "e", " ", "-", " ",
      "A", "n", "a", "l", "o", "g">>,
    <<"S", "i", "g", "n", "a", "l", " ", "L", "i", "n", "e", " ", "-", " ",
      "D", "i", "g", "i", "t", "a", "l">>
  >>

\* self.predefined_names: the name of key "i" stands at place i + 1
ISOInstruments_predefined_names ==
  <<
    <<"I", "n", "d", "i", "c", "a", "t", "o", "r", " ", "-", " ", "C", "i",
      "r", "c", "l", "e", " ", "w", "i", "t", "h", " ", "H", "o", "r", "i",
      "z", "o", "n", "t", "a", "l", " ", "L", "i", "n", "e", "s">>,
    <<"C", "o", "n", "t", "r", "o", "l", "l", "e", "r", " ", "-", " ", "S",
      "q", "u", "a", "r", "e", " ", "C", "i", "r", "c", "l", "e", " ", "w",
      "i", "t", "h", " ", "L", "i", "n", "e", "s">>,
    <<"T", "r", "a", "n", "s", "m", "i", "t", "t", "e", "r", " ", "-", " ",
      "H", "e", "x", "a", "g", "o", "n", " ", "w", "i", "t", "h", " ", "L",
      "i", "n", "e", "s">>,
    <<"I", "n", "s", "t", "r", "u", "m", "e", "n", "t", " ", "-", " ", "B",
      "a", "s", "i", "c", " ", "C", "i", "r", "c", "l", "e">>,
    <<"C", "o", "n", "t", "r", "o", "l", "l", "e", "r", " ", "-", " ", "S",
      "q", "u", "a", "r", "e", " ", "C", "i", "r", "c", "l", "e", " ", "B",
      "a", "s", "i", "c">>,
    <<"T", "r", "a", "n", "s", "m", "i", "t", "t", "e", "r", " ", "-", " ",
      "H", "e", "x", "a", "g", "o", "n", " ", "B", "a", "s", "i", "c">>,
    <<"I", "n", "d", "i", "c", "a", "t", "o", "r", " ", "-", " ", "C", "i",
      "r", "c", "l", "e", " ", "w", "i", "t", "h", " ", "S", "i", "n", "g",
      "l", "e", " ", "L", "i", "n", "e">>,
    <<"C", "o", "n", "t", "r", "o", "l", "l", "e", "r", " ", "-", " ", "S",
      "q", "u", "a", "r", "e", " ", "C", "i", "r", "c", "l", "e", " ", "w",
      "i", "t", "h", " ", "L", "i", "n", "e">>,
    <<"T", "r", "a", "n", "s", "m", "i", "t", "t", "e", "r", " ", "-", " ",
      "H", "e", "x", "a", "g", "o", "n", " ", "w", "i", "t", "h", " ", "L",
      "i", "n", "e">>,
    <<"C", "o", "n", "t", "r", "o", "l", " ", "V", "a", "l", "v", "e", " ",
      "-", " ", "L", "i", "n", "e", "a", "r">>,
    <<"C", "o", "n", "t", "r", "o", "l", " ", "V", "a", "l", "v", "e", " ",
      "-", " ", "L", "i", "n", "e", "a", "r", " ", "w", "i", "t", "h", " ",
      "P", "o", "s", "i", "t", "i", "o", "n", "e", "r">>,
    <<"C", "o", "n", "t", "r", "o", "l", " ", "V", "a", "l", "v", "e", " ",
      "-", " ", "L", "i", "n", "e", "a", "r", " ", "w", "i", "t", "h", " ",
      "A", "c", "t", "u", "a", "t", "o", "r">>,
    <<"C", "o", "n", "t", "r", "o", "l", " ", "V", "a", "l", "v", "e", " ",
      "-", " ", "A", "n", "g", "l", "e">>,
    <<"C", "o", "n", "t", "r", "o", "l", " ", "V", "a", "l", "v", "e", " ",
      "-", " ", "G", "l", "o", "b", "e">>,
    <<"P", "r", "e", "s", "s", "u", "r", "e", " ", "I", "n", "d", "i", "c",
      "a", "t", "o", "r">>,
    <<"P", "r", "e", "s", "s", "u", "r", "e", " ", "I", "n", "d", "i", "c",
      "a", "t", "o", "r", " ", "w", "i", "t", "h", " ", "S", "w", "i", "t",
      "c", "h">>
  >>

\* self.predefined_names: the name of key "i" stands at place i + 1
PIPValves_predefined_names ==
  <<
    <<"G", "a", "t", "e", " ", "V", "a", "l", "v", "e", " ", "-", " ", "G",
      "e", "n", "e", "r", "a", "l">>,
    <<"G", "a", "t", "e", " ", "V", "a", "l", "v", "e", " ", "-", " ", "W",
      "e", "d", "g", "e">>,
    <<"G", "a", "t", "e", " ", "V", "a", "l", "v", "e", " ", "-", " ", "D",
      "o", "u", "b", "l", "e", " ", "D", "i", "s", "c">>,
    <<"G", "a", "t", "e", " ", "V", "a", "l", "v", "e", " ", "-", " ", "K",
      "n", "i", "f", "e">>,
    <<"G", "l", "o", "b", "e", " ", "V", "a", "l", "v", "e", " ", "-", " ",
      "G", "e", "n", "e", "r", "a", "l">>,
    <<"G", "l", "o", "b", "e", " ", "V", "a", "l", "v", "e", " ", "-", " ",
      "A", "n", "g", "l", "e">>,
    <<"G", "l", "o", "b", "e", " ", "V", "a", "l", "v", "e", " ", "-", " ",
      "Y", "-", "T", "y", "p", "e">>,
    <<"G", "l", "o", "b", "e", " ", "V", "a", "l", "v", "e", " ", "-", " ",
      "T", "h", "r", "e", "e", " ", "W", "a", "y">>,
    <<"B", "a", "l", "l", " ", "V", "a", "l", "v", "e", " ", "-", " ", "G",
      "e", "n", "e", "r", "a", "l">>,
    <<"B", "a", "l", "l", " ", "V", "a", "l", "v", "e", " ", "-", " ", "T",
      "h", "r", "e", "e", " ", "W", "a", "y">>,
    <<"B", "a", "l", "l", " ", "V", "a", "l", "v", "e", " ", "-", " ", "F",
      "o", "u", "r", " ", "W", "a", "y">>,
    <<"B", "a", "l", "l", " ", "V", "a", "l", "v", "e", " ", "-", " ", "T",
      "r", "u", "n", "n", "i", "o", "n">>,
    <<"B", "u", "t", "t", "e", "r", "f", "l", "y", " ", "V", "a", "l", "v",
      "e", " ", "-", " ", "G", "e", "n", "e", "r", "a", "l">>,
    <<"B", "u", "t", "t", "e", "r", "f", "l", "y", " ", "V", "a", "l", "v",
      "e", " ", "-", " ", "W", "a", "f", "e", "r">>,
    <<"B", "u", "t", "t", "e", "r", "f", "l", "y", " ", "V", "a", "l", "v",
      "e", " ", "-", " ", "L", "u", "g">>,
    <<"B", "u", "t", "t", "e", "r", "f", "l", "y", " ", "V", "a", "l", "v",
      "e", " ", "-", " ", "H", "i", "g", "h", " ", "P", "e", "r", "f", "o",
      "r", "m", "a", "n", "c", "e">>,
    <<"P", "l", "u", "g", " ", "V", "a", "l", "v", "e", " ", "-", " ", "G",
      "e", "n", "e", "r", "a", "l">>,
    <<"P", "l", "u", "g", " ", "V", "a", "l", "v", "e", " ", "-", " ", "T",
      "h", "r", "e", "e", " ", "W", "a", "y">>,
    <<"P", "l", "u", "g", " ", "V", "a", "l", "v", "e", " ", "-", " ", "F",
      "o", "u", "r", " ", "W", "a", "y">>,
    <<"D", "i", "a", "p", "h", "r", "a", "g", "m", " ", "V", "a", "l", "v",
      "e", " ", "-", " ", "W", "e", "i", "r">>,
    <<"D", "i", "a", "p", "h", "r", "a", "g", "m", " ", "V", "a", "l", "v",
      "e", " ", "-", " ", "S", "t", "r", "a", "i", "g", "h", "t">>,
    <<"P", "i", "n", "c", "h", " ", "V", "a", "l", "v", "e">>,
    <<"N", "e", "e", "d", "l", "e", " ", "V", "a", "l", "v", "e">>,
    <<"C", "h", "e", "c", "k", " ", "V", "a", "l", "v", "e", " ", "-", " ",
      "G", "e", "n", "e", "r", "a", "l">>,
    <<"C", "h", "e", "c", "k", " ", "V", "a", "l", "v", "e", " ", "-", " ",
      "S", "w", "i", "n", "g">>,
    <<"C", "h", "e", "c", "k", " ", "V", "a", "l", "v", "e", " ", "-", " ",
      "L", "i", "f", "t">>,
    <<"C", "h", "e", "c", "k", " ", "V", "a", "l", "v", "e", " ", "-", " ",
      "B", "a", "l", "l">>,
    <<"C", "h", "e", "c", "k", " ", "V", "a", "l", "v", "e", " ", "-", " ",
      "W", "a", "f", "e", "r">>,
    <<"C", "h", "e", "c", "k", " ", "V", "a", "l", "v", "e", " ", "-", " ",
      "S", "t", "o", "p">>,
    <<"S", "a", "f", "e", "t", "y", " ", "V", "a", "l", "v", "e", " ", "-",
      " ", "S", "p", "r", "i", "n", "g", " ", "L", "o", "a", "d", "e", "d">>,
    <<"S", "a", "f", "e", "t", "y", " ", "V", "a", "l", "v", "e", " ", "-",
      " ", "P", "i", "l", "o", "t", " ", "O", "p", "e", "r", "a", "t", "e",
      "d">>,
    <<"R", "e", "l", "i", "e", "f", " ", "V", "a", "l", "v", "e", " ", "-",
      " ", "P", "r", "e", "s", "s", "u", "r", "e">>,
    <<"R", "e", "l", "i", "e", "f", " ", "V", "a", "l", "v", "e", " ", "-",
      " ", "V", "a", "c", "u", "u", "m">>,
    <<"R", "e", "l", "i", "e", "f", " ", "V", "a", "l", "v", "e", " ", "-",
      " ", "P", "r", "e", "s", "s", "u", "r", "e", "/", "V", "a", "c", "u",
      "u", "m">>,
    <<"C", "o", "n", "t", "r", "o", "l", " ", "V", "a", "l", "v", "e", " ",
      "-", " ", "G", "e", "n", "e", "r", "a", "l">>,
    <<"C", "o", "n", "t", "r", "o", "l", " ", "V", "a", "l", "v", "e", " ",
      "-", " ", "G", "l", "o", "b", "e", " ", "T", "y", "p", "e">>,
    <<"C", "o", "n", "t", "r", "o", "l", " ", "V", "a", "l", "v", "e", " ",
      "-", " ", "A", "n", "g", "l", "e", " ", "T", "y", "p", "e">>,
    <<"C", "o", "n", "t", "r", "o", "l", " ", "V", "a", "l", "v", "e", " ",
      "-", " ", "B", "u", "t", "t", "e", "r", "f", "l", "y", " ", "T", "y",
      "p", "e">>,
    <<"C", "o", "n", "t", "r", "o", "l", " ", "V", "a", "l", "v", "e", " ",
      "-", " ", "B", "a", "l", "l", " ", "T", "y", "p", "e">>,
    <<"C", "o", "n", "t", "r", "o", "l", " ", "V", "a", "l", "v", "e", " ",
      "-", " ", "T", "h", "r", "e", "e", " ", "W", "a", "y">>,
    <<"P", "r", "e", "s", "s", "u", "r", "e", " ", "R", "e", "d", "u", "c",
      "i", "n", "g", " ", "V", "a", "l", "v", "e">>,
    <<"B", "a", "c", "k", " ", "P", "r", "e", "s", "s", "u", "r", "e", " ",
      "V", "a", "l", "v", "e">>,
    <<"F", "l", "o", "a", "t", " ", "V", "a", "l", "v", "e">>,
    <<"F", "o", "o", "t", " ", "V", "a", "l", "v", "e">>,
    <<"A", "n", "g", "l", "e", " ", "V", "a", "l", "v", "e">>
  >>

\* self.predefined_names: the name of key "i" stands at place i + 1
PIPPipes_predefined_names ==
  <<
    <<"P", "r", "o", "c", "e", "s", "s", " ", "L", "i", "n", "e", " ", "-",
      " ", "P", "r", "i", "m", "a", "r", "y">>,
    <<"P", "r", "o", "c", "e", "s", "s", " ", "L", "i", "n", "e", " ", "-",
      " ", "S", "e", "c", "o", "n", "d", "a", "r", "y">>,
    <<"P", "r", "o", "c", "e", "s", "s", " ", "L", "i", "n", "e", " ", "-",
      " ", "T", "r", "a", "c", "e", "d">>,
    <<"P", "r", "o", "c", "e", "s", "s", " ", "L", "i", "n", "e", " ", "-",
      " ", "J", "a", "c", "k", "e", "t", "e", "d">>,
    <<"P", "r", "o", "c", "e", "s", "s", " ", "L", "i", "n", "e", " ", "-",
      " ", "I", "n", "s", "u", "l", "a", "t", "e", "d">>,
    <<"P", "r", "o", "c", "e", "s", "s", " ", "L", "i", "n", "e", " ", "-",
      " ", "U", "n", "d", "e", "r", "g", "r", "o", "u", "n", "d">>,
    <<"U", "t", "i", "l", "i", "t", "y", " ", "L", "i", "n", "e", " ", "-",
      " ", "S", "t", "e", "a", "m">>,
    <<"U", "t", "i", "l", "i", "t", "y", " ", "L", "i", "n", "e", " ", "-",
      " ", "C", "o", "n", "d", "e", "n", "s", "a", "t", "e">>,
    <<"U", "t", "i", "l", "i", "t", "y", " ", "L", "i", "n", "e", " ", "-",
      " ", "C", "o", "o", "l", "i", "n", "g", " ", "W", "a", "t", "e", "r">>,
    <<"U", "t", "i", "l", "i", "t", "y", " ", "L", "i", "n", "e", " ", "-",
      " ", "C", "h", "i", "l", "l", "e", "d", " ", "W", "a", "t", "e", "r">>,
    <<"U", "t", "i", "l", "i", "t", "y", " ", "L", "i", "n", "e", " ", "-",
      " ", "C", "o", "m", "p", "r", "e", "s", "s", "e", "d", " ", "A", "i",
      "r">>,
    <<"U", "t", "i", "l", "i", "t", "y", " ", "L", "i", "n", "e", " ", "-",
      " ", "I", "n", "s", "t", "r", "u", "m", "e", "n", "t", " ", "A", "i",
      "r">>,
    <<"U", "t", "i", "l", "i", "t", "y", " ", "L", "i", "n", "e", " ", "-",
      " ", "N", "i", "t", "r", "o", "g", "e", "n">>,
    <<"U", "t", "i", "l", "i", "t", "y", " ", "L", "i", "n", "e", " ", "-",
      " ", "N", "a", "t", "u", "r", "a", "l", " ", "G", "a", "s">>,
    <<"U", "t", "i", "l", "i", "t", "y", " ", "L", "i", "n", "e", " ", "-",
      " ", "F", "u", "e", "l", " ", "G", "a", "s">>,
    <<"U", "t", "i", "l", "i", "t", "y", " ", "L", "i", "n", "e", " ", "-",
      " ", "F", "u", "e", "l", " ", "O", "i", "l">>,
    <<"H", "y", "d", "r", "a", "u", "l", "i", "c", " ", "L", "i", "n", "e">>,
    <<"P", "n", "e", "u", "m", "a", "t", "i", "c", " ", "L", "i", "n", "e">>,
    <<"C", "a", "p", "i", "l", "l", "a", "r", "y", " ", "L", "i", "n", "e">>,
    <<"E", "l", "e", "c", "t", "r", "i", "c", " ", "S", "i", "g", "n", "a",
      "l">>,
    <<"P", "n", "e", "u", "m", "a", "t", "i", "c", " ", "S", "i", "g", "n",
      "a", "l">>,
    <<"H", "y", "d", "r", "a", "u", "l", "i", "c", " ", "S", "i", "g", "n",
      "a", "l">>,
    <<"E", "l", "e", "c", "t", "r", "o", "n", "i", "c", " ", "S", "i", "g",
      "n", "a", "l">>,
    <<"F", "i", "b", "e", "r", " ", "O", "p", "t", "i", "c", " ", "S", "i",
      "g", "n", "a", "l">>,
    <<"S", "o", "f", "t", "w", "a", "r", "e", " ", "L", "i", "n", "k">>,
    <<"M", "e", "c", "h", "a", "n", "i", "c", "a", "l", " ", "L", "i", "n",
      "k">>,
    <<"F", "l", "o", "w", " ", "D", "i", "r", "e", "c", "t", "i", "o", "n",
      " ", "-", " ", "F", "o", "r", "w", "a", "r", "d">>,
    <<"F", "l", "o", "w", " ", "D", "i", "r", "e", "c", "t", "i", "o", "n",
      " ", "-", " ", "B", "i", "d", "i", "r", "e", "c", "t", "i", "o", "n",
      "a", "l">>,
    <<"L", "i", "n", "e", " ", "C", "r", "o", "s", "s", "i", "n", "g", " ",
      "-", " ", "N", "o", " ", "C", "o", "n", "n", "e", "c", "t", "i", "o",
      "n">>,
    <<"L", "i", "n", "e", " ", "C", "o", "n", "n", "e", "c", "t", "i", "o",
      "n", " ", "-", " ", "T", "e", "e">>,
    <<"L", "i", "n", "e", " ", "C", "o", "n", "n", "e", "c", "t", "i", "o",
      "n", " ", "-", " ", "J", "u", "n", "c", "t", "i", "o", "n">>,
    <<"P", "r", "o", "c", "e", "s", "s", " ", "C", "o", "n", "n", "e", "c",
      "t", "o", "r", " ", "-", " ", "I", "n">>,
    <<"P", "r", "o", "c", "e", "s", "s", " ", "C", "o", "n", "n", "e", "c",
      "t", "o", "r", " ", "-", " ", "O", "u", "t">>,
    <<"P", "a", "g", "e", " ", "C", "o", "n", "n", "e", "c", "t", "o", "r",
      " ", "-", " ", "T", "o">>,
    <<"P", "a", "g", "e", " ", "C", "o", "n", "n", "e", "c", "t", "o", "r",
      " ", "-", " ", "F", "r", "o", "m">>,
    <<"E", "q", "u", "i", "p", "m", "e", "n", "t", " ", "N", "o", "z", "z",
      "l", "e">>,
    <<"V", "o", "r", "t", "e", "x", " ", "B", "r", "e", "a", "k", "e", "r">>,
    <<"S", "i", "p", "h", "o", "n", " ", "B", "r", "e", "a", "k", "e", "r">>,
    <<"V", "a", "c", "u", "u", "m", " ", "B", "r", "e", "a", "k", "e", "r">>,
    <<"S", "l", "o", "p", "e", " ", "I", "n", "d", "i", "c", "a", "t", "o",
      "r">>,
    <<"P", "i", "p", "e", " ", "S", "u", "p", "p", "o", "r", "t">>,
    <<"P", "i", "p", "e", " ", "G", "u", "i", "d", "e">>,
    <<"P", "i", "p", "e", " ", "A", "n", "c", "h", "o", "r">>,
    <<"E", "x", "p", "a", "n", "s", "i", "o", "n", " ", "L", "o", "o", "p">>,
    <<"F", "l", "e", "x", "i", "b", "l", "e", " ", "H", "o", "s", "e">>,
    <<"S", "a", "m", "p", "l", "e", " ", "P", "o", "i", "n", "t">>,
    <<"S", "a", "m", "p", "l", "e", " ", "C", "o", "o", "l", "e", "r">>,
    <<"D", "r", "a", "i", "n", " ", "P", "o", "i", "n", "t">>,
    <<"V", "e", "n", "t", " ", "P", "o", "i", "n", "t">>,
    <<"T", "e", "s", "t", " ", "P", "o", "i", "n", "t">>,
    <<"C", "h", "e", "m", "i", "c", "a", "l", " ", "I", "n", "j", "e", "c",
      "t", "i", "o", "n", " ", "P", "o", "i", "n", "t">>,
    <<"U", "t", "i", "l", "i", "t", "y", " ", "S", "t", "a", "t", "i", "o",
      "n">>,
    <<"H", "o", "s", "e", " ", "C", "o", "n", "n", "e", "c", "t", "i", "o",
      "n">>,
    <<"Q", "u", "i", "c", "k", " ", "D", "i", "s", "c", "o", "n", "n", "e",
      "c", "t">>,
    <<"B", "r", "e", "a", "k", "a", "w", "a", "y", " ", "C", "o", "u", "p",
      "l", "i", "n", "g">>,
    <<"S", "w", "i", "v", "e", "l", " ", "J", "o", "i", "n", "t">>,
    <<"R", "o", "t", "a", "r", "y", " ", "J", "o", "i", "n", "t">>,
    <<"L", "i", "n", "e", " ", "B", "l", "i", "n", "d">>
  >>

\* self.predefined_names: the name of key "i" stands at place i + 1
PIPInstruments_predefined_names ==
  <<
    <<"P", "r", "e", "s", "s", "u", "r", "e", " ", "I", "n", "d", "i", "c",
      "a", "t", "o", "r", " ", "-", " ", "L", "o", "c", "a", "l">>,
    <<"P", "r", "e", "s", "s", "u", "r", "e", " ", "I", "n", "d", "i", "c",
      "a", "t", "o", "r", " ", "-", " ", "R", "e", "m", "o", "t", "e">>,
    <<"P", "r", "e", "s", "s", "u", "r", "e", " ", "T", "r", "a", "n", "s",
      "m", "i", "t", "t", "e", "r">>,
    <<"P", "r", "e", "s", "s", "u", "r", "e", " ", "C", "o", "n", "t", "r",
      "o", "l", "l", "e", "r">>,
    <<"P", "r", "e", "s", "s", "u", "r", "e", " ", "S", "w", "i", "t", "c",
      "h">>,
    <<"P", "r", "e", "s", "s", "u", "r", "e", " ", "G", "a", "u", "g", "e">>,
    <<"T", "e", "m", "p", "e", "r", "a", "t", "u", "r", "e", " ", "I", "n",
      "d", "i", "c", "a", "t", "o", "r", " ", "-", " ", "L", "o", "c", "a",
      "l">>,
    <<"T", "e", "m", "p", "e", "r", "a", "t", "u", "r", "e", " ", "I", "n",
      "d", "i", "c", "a", "t", "o", "r", " ", "-", " ", "R", "e", "m", "o",
      "t", "e">>,
    <<"T", "e", "m", "p", "e", "r", "a", "t", "u", "r", "e", " ", "T", "r",
      "a", "n", "s", "m", "i", "t", "t", "e", "r">>,
    <<"T", "e", "m", "p", "e", "r", "a", "t", "u", "r", "e", " ", "C", "o",
      "n", "t", "r", "o", "l", "l", "e", "r">>,
    <<"T", "e", "m", "p", "e", "r", "a", "t", "u", "r", "e", " ", "E", "l",
      "e", "m", "e", "n", "t">>,
    <<"T", "e", "m", "p", "e", "r", "a", "t", "u", "r", "e", " ", "W", "e",
      "l", "l">>,
    <<"L", "e", "v", "e", "l", " ", "I", "n", "d", "i", "c", "a", "t", "o",
      "r", " ", "-", " ", "L", "o", "c", "a", "l">>,
    <<"L", "e", "v", "e", "l", " ", "I", "n", "d", "i", "c", "a", "t", "o",
      "r", " ", "-", " ", "R", "e", "m", "o", "t", "e">>,
    <<"L", "e", "v", "e", "l", " ", "T", "r", "a", "n", "s", "m", "i", "t",
      "t", "e", "r">>,
    <<"L", "e", "v", "e", "l", " ", "C", "o", "n", "t", "r", "o", "l", "l",
      "e", "r">>,
    <<"L", "e", "v", "e", "l", " ", "S", "w", "i", "t", "c", "h">>,
    <<"L", "e", "v", "e", "l", " ", "G", "a", "u", "g", "e", " ", "G", "l",
      "a", "s", "s">>,
    <<"F", "l", "o", "w", " ", "I", "n", "d", "i", "c", "a", "t", "o", "r",
      " ", "-", " ", "L", "o", "c", "a", "l">>,
    <<"F", "l", "o", "w", " ", "I", "n", "d", "i", "c", "a", "t", "o", "r",
      " ", "-", " ", "R", "e", "m", "o", "t", "e">>,
    <<"F", "l", "o", "w", " ", "T", "r", "a", "n", "s", "m", "i", "t", "t",
      "e", "r">>,
    <<"F", "l", "o", "w", " ", "C", "o", "n", "t", "r", "o", "l", "l", "e",
      "r">>,
    <<"F", "l", "o", "w", " ", "E", "l", "e", "m", "e", "n", "t", " ", "-",
      " ", "O", "r", "i", "f", "i", "c", "e">>,
    <<"F", "l", "o", "w", " ", "E", "l", "e", "m", "e", "n", "t", " ", "-",
      " ", "V", "e", "n", "t", "u", "r", "i">>,
    <<"F", "l", "o", "w", " ", "T", "o", "t", "a", "l", "i", "z", "e", "r">>,
    <<"C", "o", "n", "t", "r", "o", "l", " ", "V", "a", "l", "v", "e", " ",
      "-", " ", "G", "e", "n", "e", "r", "a", "l">>,
    <<"C", "o", "n", "t", "r", "o", "l", " ", "V", "a", "l", "v", "e", " ",
      "-", " ", "G", "l", "o", "b", "e">>,
    <<"C", "o", "n", "t", "r", "o", "l", " ", "V", "a", "l", "v", "e", " ",
      "-", " ", "B", "u", "t", "t", "e", "r", "f", "l", "y">>,
    <<"C", "o", "n", "t", "r", "o", "l", " ", "V", "a", "l", "v", "e", " ",
      "-", " ", "B", "a", "l", "l">>,
    <<"C", "o", "n", "t", "r", "o", "l", " ", "V", "a", "l", "v", "e", " ",
      "-", " ", "T", "h", "r", "e", "e", " ", "W", "a", "y">>,
    <<"A", "n", "a", "l", "y", "z", "e", "r", " ", "-", " ", "G", "e", "n",
      "e", "r", "a", "l">>,
    <<"A", "n", "a", "l", "y", "z", "e", "r", " ", "-", " ", "p", "H">>,
    <<"A", "n", "a", "l", "y", "z", "e", "r", " ", "-", " ", "O", "x", "y",
      "g", "e", "n">>,
    <<"A", "n", "a", "l", "y", "z", "e", "r", " ", "-", " ", "C", "o", "n",
      "d", "u", "c", "t", "i", "v", "i", "t", "y">>,
    <<"A", "n", "a", "l", "y", "z", "e", "r", " ", "-", " ", "D", "e", "n",
      "s", "i", "t", "y">>,
    <<"R", "e", "c", "o", "r", "d", "e", "r", " ", "-", " ", "G", "e", "n",
      "e", "r", "a", "l">>,
    <<"R", "e", "c", "o", "r", "d", "e", "r", " ", "-", " ", "M", "u", "l",
      "t", "i", " ", "P", "o", "i", "n", "t">>,
    <<"I", "n", "d", "i", "c", "a", "t", "o", "r", " ", "-", " ", "G", "e",
      "n", "e", "r", "a", "l">>,
    <<"C", "o", "n", "t", "r", "o", "l", "l", "e", "r", " ", "-", " ", "G",
      "e", "n", "e", "r", "a", "l">>,
    <<"H", "a", "n", "d", " ", "S", "w", "i", "t", "c", "h">>,
    <<"S", "o", "l", "e", "n", "o", "i", "d", " ", "V", "a", "l", "v", "e">>,
    <<"S", "a", "f", "e", "t", "y", " ", "V", "a", "l", "v", "e", " ", "-",
      " ", "S", "p", "r", "i", "n", "g">>,
    <<"S", "a", "f", "e", "t", "y", " ", "V", "a", "l", "v", "e", " ", "-",
      " ", "P", "i", "l", "o", "t">>,
    <<"R", "u", "p", "t", "u", "r", "e", " ", "D", "i", "s", "k">>,
    <<"A", "l", "a", "r", "m", " ", "-", " ", "G", "e", "n", "e", "r", "a",
      "l">>,
    <<"A", "l", "a", "r", "m", " ", "-", " ", "H", "i", "g", "h">>,
    <<"A", "l", "a", "r", "m", " ", "-", " ", "L", "o", "w">>,
    <<"I", "n", "t", "e", "r", "l", "o", "c", "k">>
  >>

\* self.predefined_names: the name of key "i" stands at place i + 1
PIPFittings_predefined_names ==
  <<
    <<"E", "l", "b", "o", "w", " ", "-", " ", "9", "0", " ", "D", "e", "g",
      "r", "e", "e">>,
    <<"E", "l", "b", "o", "w", " ", "-", " ", "4", "5", " ", "D", "e", "g",
      "r", "e", "e">>,
    <<"E", "l", "b", "o", "w", " ", "-", " ", "L", "o", "n", "g", " ", "R",
      "a", "d", "i", "u", "s">>,
    <<"E", "l", "b", "o", "w", " ", "-", " ", "R", "e", "d", "u", "c", "i",
      "n", "g">>,
    <<"T", "e", "e", " ", "-", " ", "E", "q", "u", "a", "l">>,
    <<"T", "e", "e", " ", "-", " ", "R", "e", "d", "u", "c", "i", "n", "g">>,
    <<"T", "e", "e", " ", "-", " ", "B", "a", "r", "r", "e", "d">>,
    <<"C", "r", "o", "s", "s", " ", "-", " ", "E", "q", "u", "a", "l">>,
    <<"C", "r", "o", "s", "s", " ", "-", " ", "R", "e", "d", "u", "c", "i",
      "n", "g">>,
    <<"R", "e", "d", "u", "c", "e", "r", " ", "-", " ", "C", "o", "n", "c",
      "e", "n", "t", "r", "i", "c">>,
    <<"R", "e", "d", "u", "c", "e", "r", " ", "-", " ", "E", "c", "c", "e",
      "n", "t", "r", "i", "c">>,
    <<"C", "o", "u", "p", "l", "i", "n", "g", " ", "-", " ", "F", "u", "l",
      "l">>,
    <<"C", "o", "u", "p", "l", "i", "n", "g", " ", "-", " ", "H", "a", "l",
      "f">>,
    <<"U", "n", "i", "o", "n", " ", "-", " ", "T", "h", "r", "e", "a", "d",
      "e", "d">>,
    <<"U", "n", "i", "o", "n", " ", "-", " ", "S", "o", "c", "k", "e", "t",
      " ", "W", "e", "l", "d">>,
    <<"C", "a", "p", " ", "-", " ", "P", "i", "p", "e">>,
    <<"P", "l", "u", "g", " ", "-", " ", "P", "i", "p", "e">>,
    <<"B", "l", "i", "n", "d", " ", "F", "l", "a", "n", "g", "e">>,
    <<"S", "p", "e", "c", "t", "a", "c", "l", "e", " ", "B", "l", "i", "n",
      "d">>,
    <<"S", "p", "a", "c", "e", "r", " ", "R", "i", "n", "g">>,
    <<"O", "r", "i", "f", "i", "c", "e", " ", "F", "l", "a", "n", "g", "e">>,
    <<"F", "l", "a", "n", "g", "e", " ", "-", " ", "W", "e", "l", "d", " ",
      "N", "e", "c", "k">>,
    <<"F", "l", "a", "n", "g", "e", " ", "-", " ", "S", "l", "i", "p", " ",
      "O", "n">>,
    <<"F", "l", "a", "n", "g", "e", " ", "-", " ", "S", "o", "c", "k", "e",
      "t", " ", "W", "e", "l", "d">>,
    <<"F", "l", "a", "n", "g", "e", " ", "-", " ", "T", "h", "r", "e", "a",
      "d", "e", "d">>,
    <<"F", "l", "a", "n", "g", "e", " ", "-", " ", "L", "a", "p", " ", "J",
      "o", "i", "n", "t">>,
    <<"G", "a", "s", "k", "e", "t", " ", "-", " ", "R", "i", "n", "g">>,
    <<"G", "a", "s", "k", "e", "t", " ", "-", " ", "F", "u", "l", "l", " ",
      "F", "a", "c", "e">>,
    <<"N", "i", "p", "p", "l", "e", " ", "-", " ", "P", "i", "p", "e">>,
    <<"S", "w", "a", "g", "e", " ", "-", " ", "C", "o", "n", "c", "e", "n",
      "t", "r", "i", "c">>,
    <<"S", "w", "a", "g", "e", " ", "-", " ", "E", "c", "c", "e", "n", "t",
      "r", "i", "c">>,
    <<"Y", "-", "B", "r", "a", "n", "c", "h">>,
    <<"L", "a", "t", "e", "r", "a", "l", " ", "-", " ", "4", "5", " ", "D",
      "e", "g", "r", "e", "e">>,
    <<"E", "x", "p", "a", "n", "s", "i", "o", "n", " ", "J", "o", "i", "n",
      "t">>,
    <<"F", "l", "e", "x", "i", "b", "l", "e", " ", "C", "o", "n", "n", "e",
      "c", "t", "o", "r">>,
    <<"S", "t", "r", "a", "i", "n", "e", "r", " ", "-", " ", "Y", " ", "T",
      "y", "p", "e">>,
    <<"S", "t", "r", "a", "i", "n", "e", "r", " ", "-", " ", "T", " ", "T",
      "y", "p", "e">>,
    <<"S", "t", "e", "a", "m", " ", "T", "r", "a", "p">>,
    <<"R", "u", "p", "t", "u", "r", "e", " ", "D", "i", "s", "k">>
  >>

\* self.predefined_names of the family
predefined_table(fam) ==
  CASE fam = "ISOValves" -> ISOValves_predefined_names
    [] fam = "ISOPipes" -> ISOPipes_predefined_names
    [] fam = "ISOInstruments" -> ISOInstruments_predefined_names
    [] fam = "PIPValves" -> PIPValves_predefined_names
    [] fam = "PIPPipes" -> PIPPipes_predefined_names
    [] fam = "PIPInstruments" -> PIPInstruments_predefined_names
    [] fam = "PIPFittings" -> PIPFittings_predefined_names

\* the table as the dict it is: from the keys "0", "1", ... to the names
predefined_names(fam) ==
  [key \in {str(i) : i \in 0..(Len(predefined_table(fam)) - 1)} |->
     predefined_table(fam)[int(key) + 1]]

\* the prefix of the file names, were it the word family before the kind of
\* symbol
filename_prefix_family(fam) ==
  CASE fam \in {"ISOValves", "PIPValves"} -> "pid_family_valves_"
    [] fam \in {"ISOPipes", "PIPPipes"} -> "pid_family_pipes_"
    [] fam \in {"ISOInstruments", "PIPInstruments"} -> "pid_family_instruments_"
    [] fam = "PIPFittings" -> "pid_family_fittings_"

\* the head of the names of the SVG files
filename_prefix(fam) ==
  CASE fam = "ISOValves" -> "pid_iso_valves_"
    [] fam = "ISOPipes" -> "pid_iso_pipes_signal_"
    [] fam = "ISOInstruments" -> "pid_iso_instruments_"
    [] fam = "PIPValves" -> "pid_pip_valves_"
    [] fam = "PIPPipes" -> "pid_pip_pipes_signal_lines_"
    [] fam = "PIPInstruments" -> "pid_pip_instruments_"
    [] fam = "PIPFittings" -> "pid_pip_fittings_"

\* the test a scraped title has to pass to be taken as a name
title_accepted(fam, title) ==
  CASE fam = "ISOValves" ->
         IsInfix(<<"v", "a", "l", "v", "e">>, lower(title)) \/ IsInfix(<<"V", "a", "l", "v", "e">>, title)
    [] fam = "ISOPipes" -> TRUE
    [] fam = "ISOInstruments" -> TRUE
    [] fam = "PIPValves" ->
         IsInfix(<<"V", "a", "l", "v", "e">>, title) \/ IsInfix(<<"v", "a", "l", "v", "e">>, lower(title))
    [] fam = "PIPPipes" ->
         \/ IsInfix(<<"L", "i", "n", "e">>, title)
         \/ IsInfix(<<"S", "i", "g", "n", "a", "l">>, title)
         \/ IsInfix(<<"l", "i", "n", "e">>, lower(title))
    [] fam = "PIPInstruments" ->
         \/ IsInfix(<<"I", "n", "s", "t", "r", "u", "m", "e", "n", "t">>, title)
         \/ IsInfix(<<"i", "n", "s", "t", "r", "u", "m", "e", "n", "t">>, lower(title))
    [] fam = "PIPFittings" ->
         \/ IsInfix(<<"F", "i", "t", "t", "i", "n", "g">>, title)
         \/ IsInfix(<<"f", "i", "t", "t", "i", "n", "g">>, lower(title))

\* the PIP extractors take a title only for i < len(self.symbol_data)
title_within_catalog(fam, i, size) ==
  IF fam \in {"PIPValves", "PIPPipes", "PIPInstruments", "PIPFittings"}
  THEN i < size
  ELSE TRUE

\* the extractors that end extract_symbol_names with "ensure all symbols
\* have names"; the ISO valves and ISO instruments extractors do not
fills_missing_names(fam) == fam \notin {"ISOValves", "ISOInstruments"}

\* the name given to the i-th symbol when it has none; read tells whether
\* the companion SVG could be read
generated_name(fam, read, i) ==
  CASE fam = "ISOPipes" ->
         IF ~read THEN <<"L", "i", "n", "e", " ", "S", "y", "m", "b", "o", "l", " ">> \o str(i)
         ELSE IF i < 20 THEN <<"P", "r", "o", "c", "e", "s", "s", " ", "L", "i", "n", "e", " ", "-", " ", "T", "y", "p", "e", " ">> \o str(i + 1)
         ELSE IF i < 40 THEN <<"S", "i", "g", "n", "a", "l", " ", "L", "i", "n", "e", " ", "-", " ", "T", "y", "p", "e", " ">> \o str(i - 19)
         ELSE <<"S", "p", "e", "c", "i", "a", "l", " ", "L", "i", "n", "e", " ", "-", " ", "T", "y", "p", "e", " ">> \o str(i - 39)
    [] fam = "PIPValves" -> <<"P", "I", "P", " ", "V", "a", "l", "v", "e", " ">> \o str(i + 1)
    [] fam = "PIPPipes" -> <<"P", "I", "P", " ", "L", "i", "n", "e", "/", "S", "i", "g", "n", "a", "l", " ">> \o str(i + 1)
    [] fam = "PIPInstruments" -> <<"P", "I", "P", " ", "I", "n", "s", "t", "r", "u", "m", "e", "n", "t", " ">> \o str(i + 1)
    [] fam = "PIPFittings" -> <<"P", "I", "P", " ", "F", "i", "t", "t", "i", "n", "g", " ">> \o str(i + 1)

\* the Description create_reference_csv writes for a key without a name
csv_generated_name(fam, idx) ==
  CASE fam = "ISOValves" -> <<"V", "a", "l", "v", "e", " ">> \o str(idx)
    [] fam = "ISOPipes" -> <<"L", "i", "n", "e", " ", "S", "y", "m", "b", "o", "l", " ">> \o str(idx)
    [] fam = "ISOInstruments" -> <<"I", "n", "s", "t", "r", "u", "m", "e", "n", "t", " ">> \o str(idx)
    [] fam = "PIPValves" -> <<"P", "I", "P", " ", "V", "a", "l", "v", "e", " ">> \o str(idx)
    [] fam = "PIPPipes" -> <<"P", "I", "P", " ", "L", "i", "n", "e", "/", "S", "i", "g", "n", "a", "l", " ">> \o str(idx)
    [] fam = "PIPInstruments" -> <<"P", "I", "P", " ", "I", "n", "s", "t", "r", "u", "m", "e", "n", "t", " ">> \o str(idx)
    [] fam = "PIPFittings" -> <<"P", "I", "P", " ", "F", "i", "t", "t", "i", "n", "g", " ">> \o str(idx)

(***************************************************************************)
(* The companion SVG is a sequence of parts: '<svg viewBox', a title       *)
(* element with its text, or other markup.                                 *)
(***************************************************************************)
ViewBox == [kind |-> "<svg viewBox", text |-> <<>>]
Title(text) == [kind |-> "<title>", text |-> text]
Markup == [kind |-> "markup", text |-> <<>>]

RECURSIVE re_split_viewBox(_)
\* re.split(r'<svg viewBox', content)
re_split_viewBox(content) ==
  IF \A i \in 1..Len(content) : content[i] # ViewBox THEN <<content>>
  ELSE LET k == CHOOSE i \in 1..Len(content) :
                   content[i] = ViewBox /\ \A j \in 1..(i - 1) : content[j] # ViewBox
       IN <<SubSeq(content, 1, k - 1)>>
          \o re_split_viewBox(SubSeq(content, k + 1, Len(content)))

\* re.search(r'<title>([^<]+)</title>', symbol): the first title element
\* with text in it
title_matches(symbol) ==
  {i \in 1..Len(symbol) :
     symbol[i].kind = "<title>" /\ symbol[i].text # <<>>}

title_match(symbol) ==
  symbol[CHOOSE i \in title_matches(symbol) :
           \A j \in title_matches(symbol) : i <= j].text

\* for i, symbol in enumerate(symbols): the places i whose title is taken
\* as a name when str(i) has none yet
scraped_places(fam, symbols, size) ==
  {i \in 0..(Len(symbols) - 1) :
     /\ title_matches(symbols[i + 1]) # {}
     /\ title_accepted(fam, title_match(symbols[i + 1]))
     /\ title_within_catalog(fam, i, size)}

\* extract_symbol_names, were its except branch to return False
extract_symbol_names_gives_up(fam, data, file) ==
  LET start == predefined_names(fam)
      symbols == Tail(re_split_viewBox(file.content))
      scraped == IF file.readable
                 THEN scraped_places(fam, symbols, Len(data))
                 ELSE {}
      filled == IF fills_missing_names(fam) THEN 0..(Len(data) - 1) ELSE {}
      names ==
        [key \in DOMAIN start \cup {str(i) : i \in scraped \cup filled} |->
           IF key \in DOMAIN start THEN start[key]
           ELSE IF int(key) \in scraped
           THEN title_match(symbols[int(key) + 1])
           ELSE generated_name(fam, file.readable, int(key))]
  IN [symbol_names |-> names,
      returned |-> file.readable]

\* extract_symbol_names: self.symbol_names and the value returned. Every
\* assignment after the copy of the predefined names is guarded by
\* "str(i) not in self.symbol_names", so a key keeps the first name it got:
\* predefined, else scraped, else generated
extract_symbol_names(fam, data, file) ==
  LET start == predefined_names(fam)
      symbols == Tail(re_split_viewBox(file.content))
      scraped == IF file.readable
                 THEN scraped_places(fam, symbols, Len(data))
                 ELSE {}
      filled == IF fills_missing_names(fam) THEN 0..(Len(data) - 1) ELSE {}
      names ==
        [key \in DOMAIN start \cup {str(i) : i \in scraped \cup filled} |->
           IF key \in DOMAIN start THEN start[key]
           ELSE IF int(key) \in scraped
           THEN title_match(symbols[int(key) + 1])
           ELSE generated_name(fam, file.readable, int(key))]
  IN [symbol_names |-> names,
      returned |-> IF file.readable THEN TRUE ELSE DOMAIN names # {}]

\* the file name of a key, were the index left out of it
svg_filename_without_index(fam, names, use_names, key) ==
  IF use_names /\ key \in DOMAIN names
  THEN <<filename_prefix(fam)>> \o clean_filename(names[key]) \o <<".svg">>
  ELSE <<filename_prefix(fam)>> \o <<".svg">>

\* the filename extract_symbols and create_reference_csv make for a key
svg_filename(fam, names, use_names, key) ==
  IF use_names /\ key \in DOMAIN names
  THEN <<filename_prefix(fam)>> \o format_03d(int(key)) \o <<"_">>
       \o clean_filename(names[key]) \o <<".svg">>
  ELSE <<filename_prefix(fam)>> \o format_03d(int(key)) \o <<".svg">>

\* the Category create_reference_csv derives from a name
category_of(fam, name) ==
  CASE fam = "ISOValves" ->
         IF IsInfix(<<"C", "o", "n", "t", "r", "o", "l">>, name) THEN <<"C", "o", "n", "t", "r", "o", "l", " ", "V", "a", "l", "v", "e">>
         ELSE IF IsInfix(<<"C", "h", "e", "c", "k">>, name) THEN <<"C", "h", "e", "c", "k", " ", "V", "a", "l", "v", "e">>
         ELSE IF IsInfix(<<"S", "a", "f", "e", "t", "y">>, name) \/ IsInfix(<<"R", "e", "l", "i", "e", "f">>, name)
         THEN <<"S", "a", "f", "e", "t", "y", "/", "R", "e", "l", "i", "e", "f", " ", "V", "a", "l", "v", "e">>
         ELSE IF IsInfix(<<"T", "h", "r", "e", "e", "-", "W", "a", "y">>, name) \/ IsInfix(<<"F", "o", "u", "r", "-", "W", "a", "y">>, name)
         THEN <<"M", "u", "l", "t", "i", "-", "W", "a", "y", " ", "V", "a", "l", "v", "e">>
         ELSE IF IsInfix(<<" ">>, name)
         THEN BeforeFirst(name, <<" ">>) \o <<" ", "V", "a", "l", "v", "e">>
         ELSE name
    [] fam \in {"ISOPipes", "ISOInstruments"} ->
         IF IsInfix(<<" ", "-", " ">>, name) THEN BeforeFirst(name, <<" ", "-", " ">>)
         ELSE IF name # <<>> THEN FirstWord(name) ELSE <<"O", "t", "h", "e", "r">>
    [] fam = "PIPValves" ->
         IF IsInfix(<<" ", "-", " ">>, name)
         THEN RemoveAll(BeforeFirst(name, <<" ", "-", " ">>), <<" ", "V", "a", "l", "v", "e">>)
         ELSE IF IsInfix(<<"G", "a", "t", "e">>, name) THEN <<"G", "a", "t", "e", " ", "V", "a", "l", "v", "e", "s">>
         ELSE IF IsInfix(<<"G", "l", "o", "b", "e">>, name) THEN <<"G", "l", "o", "b", "e", " ", "V", "a", "l", "v", "e", "s">>
         ELSE IF IsInfix(<<"B", "a", "l", "l">>, name) THEN <<"B", "a", "l", "l", " ", "V", "a", "l", "v", "e", "s">>
         ELSE IF IsInfix(<<"B", "u", "t", "t", "e", "r", "f", "l", "y">>, name) THEN <<"B", "u", "t", "t", "e", "r", "f", "l", "y", " ", "V", "a", "l", "v", "e", "s">>
         ELSE IF IsInfix(<<"P", "l", "u", "g">>, name) THEN <<"P", "l", "u", "g", " ", "V", "a", "l", "v", "e", "s">>
         ELSE IF IsInfix(<<"C", "h", "e", "c", "k">>, name) THEN <<"C", "h", "e", "c", "k", " ", "V", "a", "l", "v", "e", "s">>
         ELSE IF IsInfix(<<"S", "a", "f", "e", "t", "y">>, name) THEN <<"S", "a", "f", "e", "t", "y", " ", "V", "a", "l", "v", "e", "s">>
         ELSE IF IsInfix(<<"R", "e", "l", "i", "e", "f">>, name) THEN <<"R", "e", "l", "i", "e", "f", " ", "V", "a", "l", "v", "e", "s">>
         ELSE IF IsInfix(<<"C", "o", "n", "t", "r", "o", "l">>, name) THEN <<"C", "o", "n", "t", "r", "o", "l", " ", "V", "a", "l", "v", "e", "s">>
         ELSE IF IsInfix(<<"D", "i", "a", "p", "h", "r", "a", "g", "m">>, name) THEN <<"D", "i", "a", "p", "h", "r", "a", "g", "m", " ", "V", "a", "l", "v", "e", "s">>
         ELSE <<"S", "p", "e", "c", "i", "a", "l", "t", "y", " ", "V", "a", "l", "v", "e", "s">>
    [] fam = "PIPPipes" ->
         IF IsInfix(<<" ", "-", " ">>, name) THEN BeforeFirst(name, <<" ", "-", " ">>)
         ELSE IF IsInfix(<<"P", "r", "o", "c", "e", "s", "s", " ", "L", "i", "n", "e">>, name) THEN <<"P", "r", "o", "c", "e", "s", "s", " ", "L", "i", "n", "e", "s">>
         ELSE IF IsInfix(<<"U", "t", "i", "l", "i", "t", "y", " ", "L", "i", "n", "e">>, name) THEN <<"U", "t", "i", "l", "i", "t", "y", " ", "L", "i", "n", "e", "s">>
         ELSE IF IsInfix(<<"S", "i", "g", "n", "a", "l">>, name) THEN <<"S", "i", "g", "n", "a", "l", "s">>
         ELSE IF IsInfix(<<"F", "l", "o", "w", " ", "D", "i", "r", "e", "c", "t", "i", "o", "n">>, name) THEN <<"F", "l", "o", "w", " ", "D", "i", "r", "e", "c", "t", "i", "o", "n">>
         ELSE IF IsInfix(<<"C", "o", "n", "n", "e", "c", "t", "o", "r">>, name) THEN <<"C", "o", "n", "n", "e", "c", "t", "o", "r", "s">>
         ELSE IF IsInfix(<<"C", "o", "n", "n", "e", "c", "t", "i", "o", "n">>, name) \/ IsInfix(<<"J", "u", "n", "c", "t", "i", "o", "n">>, name)
         THEN <<"C", "o", "n", "n", "e", "c", "t", "i", "o", "n", "s">>
         ELSE IF IsInfix(<<"P", "o", "i", "n", "t">>, name) THEN <<"C", "o", "n", "n", "e", "c", "t", "i", "o", "n", " ", "P", "o", "i", "n", "t", "s">>
         ELSE IF \/ IsInfix(<<"S", "u", "p", "p", "o", "r", "t">>, name)
                 \/ IsInfix(<<"G", "u", "i", "d", "e">>, name)
                 \/ IsInfix(<<"A", "n", "c", "h", "o", "r">>, name)
         THEN <<"P", "i", "p", "e", " ", "S", "u", "p", "p", "o", "r", "t", "s">>
         ELSE IF IsInfix(<<"J", "o", "i", "n", "t">>, name) \/ IsInfix(<<"C", "o", "u", "p", "l", "i", "n", "g">>, name)
         THEN <<"J", "o", "i", "n", "t", "s", "/", "C", "o", "u", "p", "l", "i", "n", "g", "s">>
         ELSE IF name # <<>> THEN FirstWord(name) ELSE <<"O", "t", "h", "e", "r">>
    [] fam = "PIPInstruments" ->
         IF IsInfix(<<" ", "-", " ">>, name) THEN BeforeFirst(name, <<" ", "-", " ">>)
         ELSE IF IsInfix(<<"P", "r", "e", "s", "s", "u", "r", "e">>, name) THEN <<"P", "r", "e", "s", "s", "u", "r", "e">>
         ELSE IF IsInfix(<<"T", "e", "m", "p", "e", "r", "a", "t", "u", "r", "e">>, name) THEN <<"T", "e", "m", "p", "e", "r", "a", "t", "u", "r", "e">>
         ELSE IF IsInfix(<<"L", "e", "v", "e", "l">>, name) THEN <<"L", "e", "v", "e", "l">>
         ELSE IF IsInfix(<<"F", "l", "o", "w">>, name) THEN <<"F", "l", "o", "w">>
         ELSE IF IsInfix(<<"V", "a", "l", "v", "e">>, name) THEN <<"V", "a", "l", "v", "e">>
         ELSE IF IsInfix(<<"A", "n", "a", "l", "y", "z", "e", "r">>, name) THEN <<"A", "n", "a", "l", "y", "z", "e", "r">>
         ELSE IF IsInfix(<<"A", "l", "a", "r", "m">>, name) THEN <<"A", "l", "a", "r", "m">>
         ELSE IF IsInfix(<<"S", "a", "f", "e", "t", "y">>, name) THEN <<"S", "a", "f", "e", "t", "y">>
         ELSE IF name # <<>> THEN FirstWord(name) ELSE <<"O", "t", "h", "e", "r">>
    [] fam = "PIPFittings" ->
         IF IsInfix(<<" ", "-", " ">>, name) THEN BeforeFirst(name, <<" ", "-", " ">>)
         ELSE IF IsInfix(<<"E", "l", "b", "o", "w">>, name) THEN <<"E", "l", "b", "o", "w">>
         ELSE IF IsInfix(<<"T", "e", "e">>, name) THEN <<"T", "e", "e">>
         ELSE IF IsInfix(<<"C", "r", "o", "s", "s">>, name) THEN <<"C", "r", "o", "s", "s">>
         ELSE IF IsInfix(<<"R", "e", "d", "u", "c", "e", "r">>, name) THEN <<"R", "e", "d", "u", "c", "e", "r">>
         ELSE IF IsInfix(<<"F", "l", "a", "n", "g", "e">>, name) THEN <<"F", "l", "a", "n", "g", "e">>
         ELSE IF IsInfix(<<"U", "n", "i", "o", "n">>, name) \/ IsInfix(<<"C", "o", "u", "p", "l", "i", "n", "g">>, name)
         THEN <<"C", "o", "u", "p", "l", "i", "n", "g", "/", "U", "n", "i", "o", "n">>
         ELSE IF IsInfix(<<"S", "t", "r", "a", "i", "n", "e", "r">>, name) THEN <<"S", "t", "r", "a", "i", "n", "e", "r">>
         ELSE IF name # <<>> THEN FirstWord(name) ELSE <<"O", "t", "h", "e", "r">>

RECURSIVE sorted_by_int(_)
\* sorted(keys, key=lambda x: int(x)): keys of one value keep their order
sorted_by_int(keys) ==
  LET RECURSIVE insert(_, _)
      insert(sorted, key) ==
        IF sorted = <<>> THEN <<key>>
        ELSE IF int(key) < int(Head(sorted)) THEN <<key>> \o sorted
        ELSE <<Head(sorted)>> \o insert(Tail(sorted), key)
  IN IF keys = <<>> THEN <<>>
     ELSE insert(sorted_by_int(SubSeq(keys, 1, Len(keys) - 1)),
                 keys[Len(keys)])

csv_header == <<<<"I", "n", "d", "e", "x">>, <<"F", "i", "l", "e", "n", "a", "m", "e">>, <<"D", "e", "s", "c", "r", "i", "p", "t", "i", "o", "n">>, <<"C", "a", "t", "e", "g", "o", "r", "y">>>>

\* the line for a key, were its Filename column always without the slug
csv_row_without_slug(fam, names, key) ==
  IF key \in DOMAIN names
  THEN <<str(int(key)), svg_filename(fam, names, FALSE, key), names[key],
         category_of(fam, names[key])>>
  ELSE <<str(int(key)), svg_filename(fam, names, FALSE, key),
         csv_generated_name(fam, int(key)), <<"U", "n", "k", "n", "o", "w", "n">>>>

\* the line create_reference_csv writes for a key: its four columns
csv_row(fam, names, key) ==
  IF key \in DOMAIN names
  THEN <<str(int(key)), svg_filename(fam, names, TRUE, key), names[key],
         category_of(fam, names[key])>>
  ELSE <<str(int(key)), svg_filename(fam, names, FALSE, key),
         csv_generated_name(fam, int(key)), <<"U", "n", "k", "n", "o", "w", "n">>>>

\* create_reference_csv leaving out the keys that have no name
create_reference_csv_named_only(fam, data, names) ==
  LET keys == SelectSeq(sorted_by_int([i \in 1..Len(data) |-> data[i].key]),
                        LAMBDA k : k \in DOMAIN names)
  IN <<csv_header>> \o [i \in 1..Len(keys) |-> csv_row(fam, names, keys[i])]

\* create_reference_csv: the lines of the file
create_reference_csv(fam, data, names) ==
  LET keys == sorted_by_int([i \in 1..Len(data) |-> data[i].key])
  IN <<csv_header>> \o [i \in 1..Len(keys) |-> csv_row(fam, names, keys[i])]

\* clean_svg_content from its first statement to its return
clean_svg_content(fam, text) ==
  LET prepared == add_xlink(add_xmlns(replace_quot(re_sub_vendor(text))))
      split == Split(prepared)
      fixed == [i \in 1..Len(split) |-> clean_line(fam, split[i])]
  IN add_xml_declaration(Join(fixed))

\* check_conversion_tool, were inkscape looked for first and cairosvg last
check_conversion_tool_inkscape_first(tools) ==
  IF "inkscape" \in tools THEN "inkscape"
  ELSE IF "rsvg-convert" \in tools THEN "rsvg-convert"
  ELSE IF "cairosvg" \in tools THEN "cairosvg"
  ELSE "None"

\* check_conversion_tool: the first converter found, in its order of search
check_conversion_tool(tools) ==
  IF "cairosvg" \in tools THEN "cairosvg"
  ELSE IF "rsvg-convert" \in tools THEN "rsvg-convert"
  ELSE IF "inkscape" \in tools THEN "inkscape"
  ELSE "None"

RECURSIVE sorted_filenames(_)
\* sorted([f for f in os.listdir(self.output_dir) if f.endswith('.svg')]):
\* the names of one run begin alike and are told apart by the first
\* character that differs, '.' before the digits before '_' before the
\* letters
sorted_filenames(files) ==
  LET order == <<".svg">> \o DigitChars \o <<"_">> \o LowerChars
      rank(c) == CHOOSE k \in 1..Len(order) : order[k] = c
      differs(a, b) == CHOOSE i \in 1..Len(a) :
                         a[i] # b[i] /\ \A j \in 1..(i - 1) : a[j] = b[j]
      before(a, b) == rank(a[differs(a, b)]) < rank(b[differs(a, b)])
      first == CHOOSE f \in files : \A g \in files \ {f} : before(f, g)
  IN IF files = {} THEN <<>>
     ELSE <<first>> \o sorted_filenames(files \ {first})

\* svg_file.replace('.svg', '.png')
png_file(filename) ==
  [i \in 1..Len(filename) |->
     IF filename[i] = ".svg" THEN ".png" ELSE filename[i]]

\* open(filepath, 'w') and f.write(text): the file is made or overwritten
WriteFile(files, filename, text) ==
  [f \in DOMAIN files \cup {filename} |->
     IF f = filename THEN text ELSE files[f]]

(***************************************************************************)
(* What a run is started on: the catalog file, the companion SVG and the   *)
(* flags of the command line.                                              *)
(***************************************************************************)
\* two symbols: a closed path with a stroke-width, a line in the marker colour
SymbolTexts ==
  <<Document(<<>>, <<>>,
             Element(<<T_PATH, D_CLOSED>>, <<>>, <<>>, <<STROKE_WIDTH>>, <<>>)),
    Document(<<>>, <<>>,
             Element(<<T_LINE>>, <<>>, <<STROKE_RED>>, <<>>, <<>>))>>

\* the catalog with the given keys, in that order
CatalogOf(keys) ==
  [i \in 1..Len(keys) |->
     [key |-> keys[i], svg |-> SymbolTexts[(i % 2) + 1]]]

\* catalogs within the predefined table, with a gap before a key past the
\* table and with two keys of one integer value, each in two orders of
\* iteration; the catalog of all keys up to MaxExtra past the table; and the
\* catalog of the one key 0 for the closed path without stroke and fill
Catalogs(fam) ==
  LET n == Len(predefined_table(fam))
      FirstKeys(k) == [i \in 1..k |-> str(i - 1)]
      Reverse(c) == [i \in 1..Len(c) |-> c[Len(c) + 1 - i]]
      short == {FirstKeys(2), <<str(0), str(1), str(n)>>, <<<<"0">>, <<"0", "0">>>>}
  IN {CatalogOf(k) : k \in short \cup {FirstKeys(n + MaxExtra)}}
     \cup {Reverse(CatalogOf(k)) : k \in short}
     \cup {<<[key |-> str(0), svg |-> SymbolTexts[1]]>>}

\* companion SVGs: a titled head, as many untitled symbols as the table has
\* names, then one symbol without a title, or with an empty title before
\* one that every family accepts or one that no family accepts
Companions(fam) ==
  LET head == <<Markup, Title(<<"L", "i", "b", "r", "a", "r", "y">>)>>
                \o [i \in 1..(2 * Len(predefined_table(fam))) |->
                      IF i % 2 = 1 THEN ViewBox ELSE Markup]
      titles == {<<"S", "p", "a", "r", "e", " ", "V", "a", "l", "v", "e", " ", "L", "i", "n", "e", " ", "I", "n", "s", "t", "r", "u", "m", "e", "n", "t", " ", "F", "i", "t", "t", "i", "n", "g">>, <<"P", "u", "m", "p">>}
  IN {[readable |-> FALSE, content |-> <<>>]}
     \cup {[readable |-> TRUE, content |-> head \o <<ViewBox, Markup>>]}
     \cup {[readable |-> TRUE,
            content |-> head \o <<ViewBox, Title(<<>>), Title(t), Markup>>] :
             t \in titles}

Arguments ==
  [extract_names : BOOLEAN, create_csv : BOOLEAN, analyze : BOOLEAN,
   convert_png : BOOLEAN]

\* the converters the machine may have; only convert_to_png looks for them,
\* so a run without --png is started on a machine without any
Installations(arguments) ==
  IF arguments.convert_png
  THEN SUBSET {"cairosvg", "rsvg-convert", "inkscape"}
  ELSE {{}}

\* main has made the extractor and run is entered; the runs with --png are
\* those on a catalog of at most MaxPngFiles symbols without companion SVG
RunInit ==
  /\ family \in Families
  /\ raw = <<>>
  /\ svg_content = <<>>
  /\ lines = <<>>
  /\ fixed_lines = <<>>
  /\ pc = "idle"
  /\ results = <<>>
  /\ json_file \in [loadable : BOOLEAN, catalog : Catalogs(family)]
  /\ svg_file \in Companions(family)
  /\ args \in Arguments
  /\ installed \in Installations(args)
  /\ args.convert_png =>
       /\ Len(json_file.catalog) <= MaxPngFiles
       /\ ~svg_file.readable
  /\ symbol_data = <<>>
  /\ symbol_names = <<>>
  /\ has_names = FALSE
  /\ output_dir = [created |-> FALSE, files |-> <<>>]
  /\ csv_file = [written |-> FALSE, lines |-> <<>>]
  /\ png_dir = [created |-> FALSE, files |-> {}]
  /\ conversion = [tool |-> "None", todo |-> <<>>, attempts |-> <<>>,
                   converted_count |-> 0, png_count |-> 0]
  /\ todo = <<>>
  /\ extracted_count = 0
  /\ called = <<>>
  /\ exit_code = -1
  /\ rpc = "load"

\* load_json_data returns True
LoadJsonData ==
  /\ rpc = "load"
  /\ json_file.loadable
  /\ symbol_data' = json_file.catalog
  /\ called' = Append(called, "load_json_data")
  /\ rpc' = "names"
  /\ UNCHANGED <<json_file, svg_file, args, installed, png_dir, conversion,
                 symbol_names, has_names, output_dir, csv_file, todo,
                 extracted_count, exit_code>>
  /\ UNCHANGED normalizer_vars

\* a failing load taken for a good one: the run goes on
LoadJsonDataFails_run_goes_on ==
  /\ rpc = "load"
  /\ ~json_file.loadable
  /\ called' = Append(called, "load_json_data")
  /\ rpc' = "names"
  /\ UNCHANGED <<json_file, svg_file, args, installed, png_dir, conversion,
                 symbol_data, symbol_names, has_names, output_dir, csv_file,
                 todo, extracted_count, exit_code>>
  /\ UNCHANGED normalizer_vars

\* load_json_data returns False, run returns False, main returns 1
LoadJsonDataFails ==
  /\ rpc = "load"
  /\ ~json_file.loadable
  /\ called' = Append(called, "load_json_data")
  /\ exit_code' = 1
  /\ rpc' = "exit"
  /\ UNCHANGED <<json_file, svg_file, args, installed, png_dir, conversion,
                 symbol_data, symbol_names, has_names, output_dir, csv_file,
                 todo, extracted_count>>
  /\ UNCHANGED normalizer_vars

\* has_names = self.extract_symbol_names() if extract_names else False
ExtractSymbolNames ==
  /\ rpc = "names"
  /\ args.extract_names
  /\ LET r == extract_symbol_names(family, symbol_data, svg_file)
     IN /\ symbol_names' = r.symbol_names
        /\ has_names' = r.returned
  /\ called' = Append(called, "extract_symbol_names")
  /\ rpc' = "makedirs"
  /\ UNCHANGED <<json_file, svg_file, args, installed, png_dir, conversion,
                 symbol_data, output_dir, csv_file, todo, extracted_count,
                 exit_code>>
  /\ UNCHANGED normalizer_vars

\* extract_names is False, were the predefined names put to use all the same
SkipSymbolNames_uses_table ==
  /\ rpc = "names"
  /\ ~args.extract_names
  /\ symbol_names' = predefined_names(family)
  /\ has_names' = TRUE
  /\ rpc' = "makedirs"
  /\ UNCHANGED <<json_file, svg_file, args, installed, png_dir, conversion,
                 symbol_data, output_dir, csv_file, todo,
                 extracted_count, called, exit_code>>
  /\ UNCHANGED normalizer_vars

\* extract_names is False: extract_symbol_names is not called
SkipSymbolNames ==
  /\ rpc = "names"
  /\ ~args.extract_names
  /\ has_names' = FALSE
  /\ rpc' = "makedirs"
  /\ UNCHANGED <<json_file, svg_file, args, installed, png_dir, conversion,
                 symbol_data, symbol_names, output_dir, csv_file, todo,
                 extracted_count, called, exit_code>>
  /\ UNCHANGED normalizer_vars

\* extract_symbols, up to its loop: os.makedirs(self.output_dir)
MakeOutputDir ==
  /\ rpc = "makedirs"
  /\ output_dir' = [output_dir EXCEPT !.created = TRUE]
  /\ todo' = symbol_data
  /\ extracted_count' = 0
  /\ called' = Append(called, "extract_symbols")
  /\ rpc' = "extract"
  /\ UNCHANGED <<json_file, svg_file, args, installed, png_dir, conversion,
                 symbol_data, symbol_names, has_names, csv_file, exit_code>>
  /\ UNCHANGED normalizer_vars

\* one turn of: for key, svg_content in self.symbol_data.items()
ExtractSymbol ==
  /\ rpc = "extract"
  /\ todo # <<>>
  /\ LET key == Head(todo).key
         clean_svg == clean_svg_content(family, Head(todo).svg)
         filename == svg_filename(family, symbol_names, has_names, key)
     IN output_dir' =
          [output_dir EXCEPT
             !.files = WriteFile(output_dir.files, filename, clean_svg)]
  /\ todo' = Tail(todo)
  /\ extracted_count' = extracted_count + 1
  /\ UNCHANGED <<json_file, svg_file, args, installed, png_dir, conversion,
                 symbol_data, symbol_names, has_names, csv_file, called,
                 exit_code, rpc>>
  /\ UNCHANGED normalizer_vars

\* extract_symbols returns extracted_count
ExtractSymbolsReturns ==
  /\ rpc = "extract"
  /\ todo = <<>>
  /\ rpc' = "csv"
  /\ UNCHANGED <<json_file, svg_file, args, installed, png_dir, conversion,
                 symbol_data, symbol_names, has_names, output_dir, csv_file,
                 todo, extracted_count, called, exit_code>>
  /\ UNCHANGED normalizer_vars

\* if create_csv and has_names: self.create_reference_csv()
CreateReferenceCsv ==
  /\ rpc = "csv"
  /\ args.create_csv /\ has_names
  /\ csv_file' =
       [written |-> TRUE,
        lines |-> create_reference_csv(family, symbol_data, symbol_names)]
  /\ called' = Append(called, "create_reference_csv")
  /\ rpc' = "analyze"
  /\ UNCHANGED <<json_file, svg_file, args, installed, png_dir, conversion,
                 symbol_data, symbol_names, has_names, output_dir, todo,
                 extracted_count, exit_code>>
  /\ UNCHANGED normalizer_vars

SkipReferenceCsv ==
  /\ rpc = "csv"
  /\ ~(args.create_csv /\ has_names)
  /\ rpc' = "analyze"
  /\ UNCHANGED <<json_file, svg_file, args, installed, png_dir, conversion,
                 symbol_data, symbol_names, has_names, output_dir, csv_file,
                 todo, extracted_count, called, exit_code>>
  /\ UNCHANGED normalizer_vars

\* if analyze and has_names: self.analyze_symbols(), which only prints
AnalyzeSymbols ==
  /\ rpc = "analyze"
  /\ args.analyze /\ has_names
  /\ called' = Append(called, "analyze_symbols")
  /\ rpc' = "png"
  /\ UNCHANGED <<json_file, svg_file, args, installed, png_dir, conversion,
                 symbol_data, symbol_names, has_names, output_dir, csv_file,
                 todo, extracted_count, exit_code>>
  /\ UNCHANGED normalizer_vars

SkipAnalyzeSymbols ==
  /\ rpc = "analyze"
  /\ ~(args.analyze /\ has_names)
  /\ rpc' = "png"
  /\ UNCHANGED <<json_file, svg_file, args, installed, png_dir, conversion,
                 symbol_data, symbol_names, has_names, output_dir, csv_file,
                 todo, extracted_count, called, exit_code>>
  /\ UNCHANGED normalizer_vars

\* if convert_png: self.convert_to_png(png_size), on a machine with a
\* converter, up to its loop: the png directory is made and the SVG files
\* of the output directory are listed in sorted order
ConvertToPng ==
  /\ rpc = "png"
  /\ args.convert_png
  /\ check_conversion_tool(installed) # "None"
  /\ png_dir' = [png_dir EXCEPT !.created = TRUE]
  /\ conversion' =
       [conversion EXCEPT
          !.tool = check_conversion_tool(installed),
          !.todo = sorted_filenames(DOMAIN output_dir.files),
          !.converted_count = 0]
  /\ called' = Append(called, "convert_to_png")
  /\ rpc' = "convert"
  /\ UNCHANGED <<json_file, svg_file, args, installed, symbol_data,
                 symbol_names, has_names, output_dir, csv_file, todo,
                 extracted_count, exit_code>>
  /\ UNCHANGED normalizer_vars

\* one turn of the loop of convert_to_png, were the loop left at the first
\* file that convert_svg_to_png returns False for
ConvertSvgToPng_stops_at_failure ==
  /\ rpc = "convert"
  /\ conversion.todo # <<>>
  /\ \E ok \in BOOLEAN :
       /\ conversion' =
            [conversion EXCEPT
               !.todo = IF ok THEN Tail(conversion.todo) ELSE <<>>,
               !.attempts =
                 Append(conversion.attempts,
                        [svg |-> Head(conversion.todo),
                         tool |-> conversion.tool, ok |-> ok]),
               !.converted_count =
                 IF ok THEN conversion.converted_count + 1
                 ELSE conversion.converted_count]
       /\ png_dir' =
            IF ok
            THEN [png_dir EXCEPT
                    !.files = png_dir.files
                              \cup {png_file(Head(conversion.todo))}]
            ELSE png_dir
  /\ UNCHANGED <<json_file, svg_file, args, installed, symbol_data,
                 symbol_names, has_names, output_dir, csv_file, todo,
                 extracted_count, called, exit_code, rpc>>
  /\ UNCHANGED normalizer_vars

\* one turn of: for svg_file in svg_files; convert_svg_to_png returns True
\* and the PNG file is there, or it returns False
ConvertSvgToPng ==
  /\ rpc = "convert"
  /\ conversion.todo # <<>>
  /\ \E ok \in BOOLEAN :
       /\ conversion' =
            [conversion EXCEPT
               !.todo = Tail(conversion.todo),
               !.attempts =
                 Append(conversion.attempts,
                        [svg |-> Head(conversion.todo),
                         tool |-> conversion.tool, ok |-> ok]),
               !.converted_count =
                 IF ok THEN conversion.converted_count + 1
                 ELSE conversion.converted_count]
       /\ png_dir' =
            IF ok
            THEN [png_dir EXCEPT
                    !.files = png_dir.files
                              \cup {png_file(Head(conversion.todo))}]
            ELSE png_dir
  /\ UNCHANGED <<json_file, svg_file, args, installed, symbol_data,
                 symbol_names, has_names, output_dir, csv_file, todo,
                 extracted_count, called, exit_code, rpc>>
  /\ UNCHANGED normalizer_vars

\* convert_to_png returns converted_count
ConvertToPngReturns ==
  /\ rpc = "convert"
  /\ conversion.todo = <<>>
  /\ conversion' =
       [conversion EXCEPT !.png_count = conversion.converted_count]
  /\ rpc' = "return"
  /\ UNCHANGED <<json_file, svg_file, args, installed, png_dir, symbol_data,
                 symbol_names, has_names, output_dir, csv_file, todo,
                 extracted_count, called, exit_code>>
  /\ UNCHANGED normalizer_vars

\* convert_to_png without a converter, were the png directory made before
\* the converter is looked for
ConvertToPngWithoutTool_after_makedirs ==
  /\ rpc = "png"
  /\ args.convert_png
  /\ check_conversion_tool(installed) = "None"
  /\ png_dir' = [png_dir EXCEPT !.created = TRUE]
  /\ called' = Append(called, "convert_to_png")
  /\ rpc' = "return"
  /\ UNCHANGED <<json_file, svg_file, args, installed, conversion,
                 symbol_data, symbol_names, has_names, output_dir, csv_file,
                 todo, extracted_count, exit_code>>
  /\ UNCHANGED normalizer_vars

\* convert_to_png on a machine without a converter: it returns 0 before the
\* png directory is made
ConvertToPngWithoutTool ==
  /\ rpc = "png"
  /\ args.convert_png
  /\ check_conversion_tool(installed) = "None"
  /\ conversion' =
       [conversion EXCEPT
          !.tool = check_conversion_tool(installed), !.png_count = 0]
  /\ called' = Append(called, "convert_to_png")
  /\ rpc' = "return"
  /\ UNCHANGED <<json_file, svg_file, args, installed, png_dir,
                 symbol_data, symbol_names, has_names, output_dir, csv_file,
                 todo, extracted_count, exit_code>>
  /\ UNCHANGED normalizer_vars

\* convert_png is False
SkipPng ==
  /\ rpc = "png"
  /\ ~args.convert_png
  /\ rpc' = "return"
  /\ UNCHANGED <<json_file, svg_file, args, installed, png_dir, conversion,
                 symbol_data, symbol_names, has_names, output_dir, csv_file,
                 todo, extracted_count, called, exit_code>>
  /\ UNCHANGED normalizer_vars

\* run returns True, main returns 0
RunReturns ==
  /\ rpc = "return"
  /\ exit_code' = 0
  /\ rpc' = "exit"
  /\ UNCHANGED <<json_file, svg_file, args, installed, png_dir, conversion,
                 symbol_data, symbol_names, has_names, output_dir, csv_file,
                 todo, extracted_count, called>>
  /\ UNCHANGED normalizer_vars

RunNext ==
  \/ LoadJsonData
  \/ LoadJsonDataFails
  \/ ExtractSymbolNames
  \/ SkipSymbolNames
  \/ MakeOutputDir
  \/ ExtractSymbol
  \/ ExtractSymbolsReturns
  \/ CreateReferenceCsv
  \/ SkipReferenceCsv
  \/ AnalyzeSymbols
  \/ SkipAnalyzeSymbols
  \/ ConvertToPng
  \/ ConvertSvgToPng
  \/ ConvertToPngReturns
  \/ ConvertToPngWithoutTool
  \/ SkipPng
  \/ RunReturns

RunSpec == RunInit /\ [][RunNext]_vars

(***************************************************************************)
(* clean_filename on its own: called on a name, then on what it returned.  *)
(* The seven extractors define it with the same three statements.          *)
(***************************************************************************)
\* the longest name tried, the two long examples apart
MaxNameLen == 3

\* the names clean_filename is called on: every text up to MaxNameLen of an
\* upper-case letter, a lower-case letter, a digit, the underscore, a space,
\* a hyphen, a special character and U+0130; and two display names
Names ==
  UNION {[1..n -> {"G", "a", "0", "_", " ", "-", "(", "U+0130"}] :
           n \in 0..MaxNameLen}
  \cup {<<"G", "a", "t", "e", " ", "V", "a", "l", "v", "e", " ", "-", " ", "W", "e", "d", "g", "e">>, <<"C", "o", "n", "t", "r", "o", "l", " ", "V", "a", "l", "v", "e", " ", "(", "P", "n", "e", "u", "m", "a", "t", "i", "c", ")", "!">>}

SlugInit ==
  /\ family \in Families
  /\ raw \in Names
  /\ svg_content = <<>>
  /\ lines = <<>>
  /\ fixed_lines = <<>>
  /\ pc = "clean_filename"
  /\ results = <<>>
  /\ json_file = [loadable |-> FALSE, catalog |-> <<>>]
  /\ svg_file = [readable |-> FALSE, content |-> <<>>]
  /\ args = [extract_names |-> FALSE, create_csv |-> FALSE,
             analyze |-> FALSE, convert_png |-> FALSE]
  /\ installed = {}
  /\ png_dir = [created |-> FALSE, files |-> {}]
  /\ conversion = [tool |-> "None", todo |-> <<>>, attempts |-> <<>>,
                   converted_count |-> 0, png_count |-> 0]
  /\ symbol_data = <<>>
  /\ symbol_names = <<>>
  /\ has_names = FALSE
  /\ output_dir = [created |-> FALSE, files |-> <<>>]
  /\ csv_file = [written |-> FALSE, lines |-> <<>>]
  /\ todo = <<>>
  /\ extracted_count = 0
  /\ called = <<>>
  /\ exit_code = -1
  /\ rpc = "idle"

\* clean_filename(name), name being the given one or the slug returned last
CleanFilename ==
  /\ pc = "clean_filename"
  /\ Len(results) < MaxPass
  /\ results' =
       Append(results,
              clean_filename(IF results = <<>> THEN raw
                             ELSE results[Len(results)]))
  /\ UNCHANGED <<family, raw, svg_content, lines, fixed_lines, pc>>
  /\ UNCHANGED run_vars

SlugSpec == SlugInit /\ [][CleanFilename]_vars


(***************************************************************************)
(* Reading the elements of a text, for the properties below.               *)
(***************************************************************************)
ShapeTagPieces ==
  {T_PATH, T_RECT, T_CIRCLE, T_ELLIPSE, T_POLYGON, T_POLYLINE, T_LINE}

Has(l, piece) == \E i \in 1..Len(l) : l[i] = piece

IsElement(l) == \E i \in 1..Len(l) : l[i] \in ShapeTagPieces

\* the shape elements of a text, in document order
Elements(text) == SelectSeq(Split(text), IsElement)

IsFill(piece) == piece \in {FILL_NONE, FILL_WHITE, FILL_BLACK}
IsStroke(piece) == piece \in {STROKE_RED, STROKE_BLACK}

\* the fill attributes and the stroke attributes of an element, in order
FillsOf(l) == SelectSeq(l, IsFill)
StrokesOf(l) == SelectSeq(l, IsStroke)

Stroked(l) == StrokesOf(l) # <<>> \/ Has(l, STROKE_WIDTH)

\* the normalizer has returned at least once
Returned == Len(results) >= 1

\* the k-th shape element of the input and of what the first call returned
InEl(k) == Elements(raw)[k]
OutEl(k) == Elements(results[1])[k]
ElementIndexes == 1..Len(Elements(raw))

\* the text the p-th call was given
Given(p) == IF p = 1 THEN raw ELSE results[p - 1]

ClosedPathOrPolygon(l) ==
  \/ Has(l, T_POLYGON)
  \/ Has(l, T_PATH)
     /\ (Has(l, D_CLOSED) \/ Has(l, D_CLOSED_LC) \/ Has(l, D_CLOSED_HV))

(***************************************************************************)
(* C1: clean_svg_content is idempotent: the second call returns, byte for  *)
(* byte, what the first call returned.                                     *)
(***************************************************************************)
C1_Idempotent == Len(results) >= 2 => results[2] = results[1]

(***************************************************************************)
(* C2: in the returned text every element stroked in the marker colour     *)
(* #ff0000 has fill none, whatever its tag.  Stated for the elements the   *)
(* fill step decides, those that bring no fill of their own (C8).          *)
(***************************************************************************)
C2_MarkerStrokeFillNone ==
  Returned =>
    \A k \in ElementIndexes :
      (Has(OutEl(k), STROKE_RED) /\ FillsOf(InEl(k)) = <<>>)
        => FillsOf(OutEl(k)) = <<FILL_NONE>>

FamilyColor(fam) ==
  IF fam \in {"ISOPipes", "PIPPipes"} THEN FILL_BLACK ELSE FILL_WHITE

C4_ClosedShapeFamilyColor ==
  Returned =>
    \A k \in ElementIndexes :
      ( /\ ClosedPathOrPolygon(InEl(k))
        /\ ~Has(InEl(k), STROKE_RED)
        /\ FillsOf(InEl(k)) = <<>>
        /\ Stroked(InEl(k)) )
        => FillsOf(OutEl(k)) = <<FamilyColor(family)>>

TreatedAsShape(fam, l) == ~(fam = "ISOInstruments" /\ Has(l, T_LINE))

C6_LineAndPolylineFillNone ==
  Returned =>
    \A k \in ElementIndexes :
      ( /\ Has(InEl(k), T_LINE) \/ Has(InEl(k), T_POLYLINE)
        /\ FillsOf(InEl(k)) = <<>>
        /\ Stroked(InEl(k)) )
        => FillsOf(OutEl(k)) = <<FILL_NONE>>

(***************************************************************************)
(* C7: every shape element, of each of the seven tags and in every family, *)
(* that declares stroke-width but no stroke is given stroke="#000000", and *)
(* an element stroked #ff0000 keeps that stroke as its only one.           *)
(***************************************************************************)
C7_DefaultStrokeInjected ==
  Returned =>
    \A k \in ElementIndexes :
      /\ (Has(InEl(k), STROKE_WIDTH) /\ StrokesOf(InEl(k)) = <<>>)
           => StrokesOf(OutEl(k)) = <<STROKE_BLACK>>
      /\ Has(InEl(k), STROKE_RED) => StrokesOf(OutEl(k)) = <<STROKE_RED>>

(***************************************************************************)
(* C8: an element that already carries a fill attribute leaves every call  *)
(* of the normalizer with that same single fill attribute, in every        *)
(* family, whatever its tag, stroke and marker attributes.                 *)
(***************************************************************************)
C8_ExplicitFillUntouched ==
  \A p \in 1..Len(results) :
    \A k \in 1..Len(Elements(Given(p))) :
      FillsOf(Elements(Given(p))[k]) # <<>>
        => FillsOf(Elements(results[p])[k]) = FillsOf(Elements(Given(p))[k])

\* in the ISO pipes family a polygon with a marker attribute, a stroke-width
\* and its own fill has been given a stroke and has kept its fill
C8_Witness ==
  /\ Returned
  /\ family = "ISOPipes"
  /\ \E k \in ElementIndexes :
       /\ Has(InEl(k), T_POLYGON) /\ Has(InEl(k), MARKER_END)
       /\ FillsOf(InEl(k)) = <<FILL_BLACK>>
       /\ Has(InEl(k), STROKE_WIDTH) /\ StrokesOf(InEl(k)) = <<>>
       /\ StrokesOf(OutEl(k)) = <<STROKE_BLACK>>
       /\ FillsOf(OutEl(k)) = <<FILL_BLACK>>

(***************************************************************************)
(* C9: in the PIP pipes family a stroked circle, not in the marker colour  *)
(* and without a fill, is filled #000000 exactly when its radius is at     *)
(* most 3, and white when it is larger.                                    *)
(***************************************************************************)
\* ten times the radius an r attribute gives
RadiusTenths(l) ==
  CASE Has(l, R_2) -> 20
    [] Has(l, R_2_5) -> 25
    [] Has(l, R_3) -> 30
    [] Has(l, R_5) -> 50

C9_SmallCircleBlack ==
  (Returned /\ family = "PIPPipes") =>
    \A k \in ElementIndexes :
      ( /\ Has(InEl(k), T_CIRCLE)
        /\ \E r \in {R_2, R_2_5, R_3, R_5} : Has(InEl(k), r)
        /\ ~Has(InEl(k), STROKE_RED)
        /\ FillsOf(InEl(k)) = <<>>
        /\ Stroked(InEl(k)) )
        => FillsOf(OutEl(k)) =
             IF RadiusTenths(InEl(k)) <= 30
             THEN <<FILL_BLACK>> ELSE <<FILL_WHITE>>

(***************************************************************************)
(* C10: every text the normalizer returns holds exactly one default        *)
(* namespace declaration xmlns=, and it stands on the root svg element,    *)
(* whether the input had none or had one on its root.                      *)
(***************************************************************************)
IsXmlns(piece) == piece = XMLNS

\* the first tag of the text that opens an svg element
RootTag(text) ==
  LET ls == Split(text)
      k == CHOOSE i \in 1..Len(ls) :
             Has(ls[i], SVG) /\ \A j \in 1..(i - 1) : ~Has(ls[j], SVG)
  IN ls[k]

C10_ExactlyOneXmlns ==
  \A p \in 1..Len(results) :
    /\ Len(SelectSeq(results[p], IsXmlns)) = 1
    /\ Has(RootTag(results[p]), XMLNS)

\* an input without xmlns= has come back with the declaration
C10_Witness ==
  /\ Returned
  /\ ~Has(raw, XMLNS)
  /\ Has(raw, XMLNS_XLINK)
  /\ Len(SelectSeq(results[1], IsXmlns)) = 1

(***************************************************************************)
(* C11: when the text given to clean_svg_content uses xlink:href and does  *)
(* not declare xmlns:xlink, the returned text holds exactly one            *)
(* xmlns:xlink declaration and it stands on the root svg element; when no  *)
(* element uses xlink:href, or the namespace is declared already, none is  *)
(* inserted.                                                               *)
(***************************************************************************)
IsXlinkDeclaration(piece) == piece = XMLNS_XLINK

XlinkDeclarations(text) == Len(SelectSeq(text, IsXlinkDeclaration))

C11_XlinkDeclaredWhenUsed ==
  \A p \in 1..Len(results) :
    IF Has(Given(p), XLINK_HREF) /\ ~Has(Given(p), XMLNS_XLINK)
    THEN /\ XlinkDeclarations(results[p]) = 1
         /\ Has(RootTag(results[p]), XMLNS_XLINK)
    ELSE XlinkDeclarations(results[p]) = XlinkDeclarations(Given(p))

\* an input that uses xlink:href without the declaration has come back with
\* it on the root, and the second call has added no other
C11_Witness ==
  /\ Len(results) >= 2
  /\ Has(raw, XLINK_HREF)
  /\ ~Has(raw, XMLNS_XLINK)
  /\ Has(RootTag(results[1]), XMLNS_XLINK)
  /\ XlinkDeclarations(results[2]) = 1

(***************************************************************************)
(* C12: the returned text holds no attribute of the form                   *)
(* prefix:identifier="value" with a non-standard prefix and no &quot;      *)
(* entity.                                                                 *)
(***************************************************************************)
\* the pieces in which an attribute with a non-standard prefix stands
VendorAttributePieces == {V_UNIT, TITLE_RAW, INK_LABEL}

C12_NoVendorAttributeNoEntity ==
  \A p \in 1..Len(results) :
    \A i \in 1..Len(results[p]) :
      results[p][i] \notin VendorAttributePieces \cup {TITLE_ESC}

(***************************************************************************)
(* C13: clean_svg_content runs its steps in one order: vendor attributes   *)
(* stripped, entities unescaped, xmlns added, xmlns:xlink added, then      *)
(* element by element the stroke and the fill, then the XML declaration.   *)
(* Each step starts from what the steps before it have finished, and an    *)
(* element given a stroke by the stroke step is given its fill as well.    *)
(***************************************************************************)
StepOrder ==
  /\ pc = "strip" => pc' = "unescape"
  /\ pc = "unescape" => pc' = "xmlns"
  /\ pc = "xmlns" => pc' = "xlink"
  /\ pc = "xlink" => pc' = "split"
  /\ pc = "split" => pc' = "loop"
  /\ pc = "loop" => pc' \in {"loop", "declaration"}
  /\ pc = "declaration" => pc' = "done"
  /\ pc = "done" => pc' = "strip"

StepsCompleted ==
  /\ pc \in {"unescape", "xmlns", "xlink", "split"}
       => ~Has(svg_content, V_UNIT)
  /\ pc \in {"xmlns", "xlink", "split"} => ~Has(svg_content, TITLE_ESC)
  /\ pc \in {"xlink", "split"} => Has(svg_content, XMLNS)
  /\ pc = "split"
       => (Has(svg_content, XLINK_HREF) => Has(svg_content, XMLNS_XLINK))
  /\ (pc = "loop" /\ Len(results) = 0)
       => \A i \in 1..Len(fixed_lines) :
            ( /\ IsElement(fixed_lines[i])
              /\ TreatedAsShape(family, fixed_lines[i])
              /\ FillsOf(Elements(raw)[Len(SelectSeq(SubSeq(fixed_lines, 1, i),
                                                     IsElement))]) = <<>>
              /\ Has(fixed_lines[i], STROKE_WIDTH) )
              => /\ Len(StrokesOf(fixed_lines[i])) = 1
                 /\ Len(FillsOf(fixed_lines[i])) = 1
  /\ (pc # "done" /\ Len(results) = 0 /\ ~Has(raw, XML_DECL))
       => ~Has(svg_content, XML_DECL)
  /\ pc = "done" => results[Len(results)][1] = XML_DECL

C13_StepsInOrder == [](StepsCompleted) /\ [][StepOrder]_vars

\* a text with a vendor attribute, no namespace and a stroke-width without
\* stroke has gone through every step
C13_Witness ==
  /\ pc = "done"
  /\ Has(raw, V_UNIT)
  /\ ~Has(raw, XMLNS)
  /\ ~Has(raw, XML_DECL)
  /\ \E k \in ElementIndexes :
       /\ Has(InEl(k), STROKE_WIDTH) /\ StrokesOf(InEl(k)) = <<>>
       /\ StrokesOf(OutEl(k)) = <<STROKE_BLACK>>
       /\ Len(FillsOf(OutEl(k))) = 1
  /\ ~Has(results[1], V_UNIT)
  /\ Has(results[1], XMLNS)
  /\ results[1][1] = XML_DECL

(***************************************************************************)
(* C14: the namespace, stroke, fill and declaration fixups only add.  The  *)
(* text given to a call, with its v: attributes cut and its &quot;         *)
(* entities unescaped, is found in the returned text piece by piece in the *)
(* same order; what the returned text holds besides is a namespace, a      *)
(* stroke, a fill or the XML declaration; no element is lost or moved.     *)
(***************************************************************************)
\* the text with its v: attributes cut and its entities unescaped
Kept(text) ==
  Concat([i \in 1..Len(text) |->
            IF text[i] = V_UNIT THEN <<>>
            ELSE IF text[i] = TITLE_RAW THEN <<TITLE_X>>
            ELSE IF text[i] = TITLE_ESC THEN <<TITLE_RAW>>
            ELSE <<text[i]>>])

RECURSIVE IsSubseq(_, _)
\* a is b with some pieces of b left out
IsSubseq(a, b) ==
  IF a = <<>> THEN TRUE
  ELSE IF b = <<>> THEN FALSE
  ELSE IF Head(a) = Head(b) THEN IsSubseq(Tail(a), Tail(b))
  ELSE IsSubseq(a, Tail(b))

\* the pieces a fixup writes
FixupPieces ==
  {XMLNS, XMLNS_XLINK, STROKE_BLACK, FILL_NONE, FILL_WHITE, FILL_BLACK,
   XML_DECL, NL, GT}

NotFixupPiece(piece) == piece \notin FixupPieces

C14_FixupsOnlyAdd ==
  \A p \in 1..Len(results) :
    /\ IsSubseq(Kept(Given(p)), results[p])
    /\ SelectSeq(results[p], NotFixupPiece)
         = SelectSeq(Kept(Given(p)), NotFixupPiece)
    /\ Len(Split(results[p])) - Len(Split(Kept(Given(p))))
         = (IF Has(Given(p), XML_DECL) THEN 0 ELSE 1)
    /\ Len(Elements(results[p])) = Len(Elements(Given(p)))

\* an element with an id, a marker attribute or a title and a stroke-width
\* has been given a stroke and a fill and has kept what it had
C14_Witness ==
  /\ Returned
  /\ \E k \in ElementIndexes :
       /\ Has(InEl(k), ID_ZONE) \/ Has(InEl(k), INK_LABEL)
       /\ Has(InEl(k), STROKE_WIDTH)
       /\ StrokesOf(InEl(k)) = <<>> /\ FillsOf(InEl(k)) = <<>>
       /\ StrokesOf(OutEl(k)) = <<STROKE_BLACK>>
       /\ Len(FillsOf(OutEl(k))) = 1
       /\ IsSubseq(InEl(k), OutEl(k))

(***************************************************************************)
(* C15: the stroke and the fill an element is given depend on its own tag  *)
(* and attributes only: behind other siblings or other character data the  *)
(* element comes out with the stroke and the fill it gets standing alone.  *)
(***************************************************************************)
\* the element of a line: the pieces from its tag on
TagPart(l) ==
  LET k == CHOOSE i \in 1..Len(l) :
             l[i] \in ShapeTagPieces
             /\ \A j \in 1..(i - 1) : l[j] \notin ShapeTagPieces
  IN SubSeq(l, k, Len(l))

C15_ElementLocal ==
  Returned =>
    \A k \in ElementIndexes :
      /\ FillsOf(OutEl(k)) = FillsOf(clean_line(family, TagPart(InEl(k))))
      /\ StrokesOf(OutEl(k)) = StrokesOf(clean_line(family, TagPart(InEl(k))))

(***************************************************************************)
(* Properties of a run of main.                                            *)
(***************************************************************************)
\* the keys of the loaded catalog
CatalogKeys == {symbol_data[i].key : i \in 1..Len(symbol_data)}

\* the method has been called in this run
Called(method) == \E i \in 1..Len(called) : called[i] = method

\* the symbols of the companion SVG as extract_symbol_names numbers them
CompanionSymbols ==
  IF svg_file.readable THEN Tail(re_split_viewBox(svg_file.content)) ELSE <<>>

\* the companion SVG holds a title for the index the key spells
HasScrapedTitle(key) ==
  \E i \in 0..(Len(CompanionSymbols) - 1) :
    str(i) = key /\ title_matches(CompanionSymbols[i + 1]) # {}

ScrapedTitle(key) == title_match(CompanionSymbols[int(key) + 1])

\* the name is a family label followed by the index of the key plus one
IsPlaceholder(name, key) ==
  \E n \in 2..Len(name) :
    SubSeq(name, n, Len(name)) = <<" ">> \o str(int(key) + 1)

\* the data rows of the CSV that are about the key
RowsOf(key) ==
  {r \in 2..Len(csv_file.lines) :
     csv_file.lines[r][2] = svg_filename(family, symbol_names, TRUE, key)}

\* C16: after extract_symbol_names every key of the loaded catalog has a
\* display name in symbol_names and that name is not empty, whatever the
\* family, the catalog and the companion SVG are.
C16_EveryKeyNamed ==
  Called("extract_symbol_names") =>
    \A key \in CatalogKeys :
      key \in DOMAIN symbol_names /\ symbol_names[key] # <<>>

\* C17: the name of every catalog key is the predefined one when the table
\* has the key, else the title scraped for that index, else a placeholder
\* made of a label and index + 1; and the Description the CSV gives for the
\* key is that same name.
C17_NamePrecedence ==
  Called("extract_symbol_names") =>
    \A key \in CatalogKeys :
      /\ key \in DOMAIN symbol_names
      /\ IF key \in DOMAIN predefined_names(family)
         THEN symbol_names[key] = predefined_names(family)[key]
         ELSE IF HasScrapedTitle(key)
         THEN symbol_names[key] = ScrapedTitle(key)
         ELSE IsPlaceholder(symbol_names[key], key)
      /\ csv_file.written =>
           \A r \in RowsOf(key) : csv_file.lines[r][3] = symbol_names[key]

\* C18: main ends with 1 when the catalog cannot be loaded and with 0 when
\* it can; after a failed load no output directory exists, no SVG and no
\* CSV file is written and extract_symbol_names is never called.
C18_LoadFailureAborts ==
  /\ rpc = "exit" => exit_code = (IF json_file.loadable THEN 0 ELSE 1)
  /\ ~json_file.loadable =>
       /\ ~output_dir.created
       /\ DOMAIN output_dir.files = {}
       /\ ~csv_file.written
       /\ ~Called("extract_symbol_names")
       /\ ~Called("extract_symbols")
       /\ DOMAIN symbol_names = {}

C18_Witness ==
  /\ rpc = "exit"
  /\ ~json_file.loadable
  /\ exit_code = 1
  /\ called = <<"load_json_data">>
  /\ args.extract_names /\ args.create_csv

\* the CSV holds the header and one data row per catalog symbol: as many
\* rows as symbols, and for every index as many rows as keys of that value
OneRowPerSymbol ==
  /\ csv_file.written
  /\ csv_file.lines # <<>>
  /\ Head(csv_file.lines) = csv_header
  /\ Len(csv_file.lines) - 1 = Len(symbol_data)
  /\ \A key \in CatalogKeys :
       Cardinality({r \in 2..Len(csv_file.lines) :
                      csv_file.lines[r][1] = str(int(key))})
         = Cardinality({i \in 1..Len(symbol_data) :
                          int(symbol_data[i].key) = int(key)})

\* C19 as stated: a finished run on a loaded catalog with create_csv true
\* has written the header and one row per catalog symbol, whatever
\* extract_names and analyze are.
C19_CsvWheneverEnabled ==
  (rpc = "exit" /\ json_file.loadable /\ args.create_csv) => OneRowPerSymbol

\* C19: a finished run on a loaded catalog has written the header and one
\* row per catalog symbol when create_csv and extract_names are both true,
\* whatever analyze is; it has written no CSV when either is false.
C19_CsvWhenEnabledAndNamed ==
  (rpc = "exit" /\ json_file.loadable) =>
    IF args.create_csv /\ args.extract_names
    THEN OneRowPerSymbol
    ELSE ~csv_file.written

C19_Witness ==
  /\ rpc = "exit"
  /\ args.create_csv /\ args.extract_names /\ ~args.analyze
  /\ csv_file.written
  /\ Len(symbol_data) > 2
  /\ Len(csv_file.lines) = Len(symbol_data) + 1
  /\ \E key \in CatalogKeys : key \notin DOMAIN symbol_names

\* the index as at least three digits, padded with zeros
PaddedIndex(n) ==
  IF n < 10 THEN <<"0", "0">> \o str(n)
  ELSE IF n < 100 THEN <<"0">> \o str(n)
  ELSE str(n)

\* {family}_{index}_{slug}.svg for the key
SluggedName(key) ==
  <<filename_prefix(family)>> \o PaddedIndex(int(key)) \o <<"_">>
  \o clean_filename(symbol_names[key]) \o <<".svg">>

\* {family}_{index}.svg for the key
PlainName(key) ==
  <<filename_prefix(family)>> \o PaddedIndex(int(key)) \o <<".svg">>

\* the name of the file of a key: with the slug when names are in use and
\* the key has one
FileOf(key) ==
  IF has_names /\ key \in DOMAIN symbol_names
  THEN SluggedName(key)
  ELSE PlainName(key)

\* the catalog as a set: what does not depend on the order of iteration
CatalogEntries == {symbol_data[i] : i \in 1..Len(symbol_data)}

\* C20 as stated: after a run on a loaded catalog every symbol has its file
\* {family}_{index}_{slug of its display name}.svg with its cleaned text.
C20_FileWithSlug ==
  (rpc = "exit" /\ json_file.loadable) =>
    \A e \in CatalogEntries :
      /\ e.key \in DOMAIN symbol_names
      /\ SluggedName(e.key) \in DOMAIN output_dir.files
      /\ output_dir.files[SluggedName(e.key)]
           = clean_svg_content(family, e.svg)

\* C20: after a run on a loaded catalog the files are exactly those named
\* {family}_{index}[_{slug}].svg for the catalog keys, the index being the
\* integer of the key in at least three digits and the slug being there
\* when names are in use and the key has one; every file holds the cleaned
\* text of a symbol of that name, of the only one when one key has the name.
\* Nothing here depends on the order of iteration.
C20_FileFromKey ==
  (rpc = "exit" /\ json_file.loadable) =>
    /\ DOMAIN output_dir.files = {FileOf(e.key) : e \in CatalogEntries}
    /\ \A e \in CatalogEntries :
         \/ output_dir.files[FileOf(e.key)] = clean_svg_content(family, e.svg)
         \/ \E o \in CatalogEntries :
              /\ o.key # e.key
              /\ FileOf(o.key) = FileOf(e.key)
              /\ output_dir.files[FileOf(o.key)]
                   = clean_svg_content(family, o.svg)

\* a run that iterated from the highest key down, the first key being past
\* every place of the iteration; slugged and plain files are both written
C20_Witness ==
  /\ rpc = "exit"
  /\ has_names
  /\ Len(symbol_data) > 2
  /\ int(symbol_data[1].key) > Len(symbol_data)
  /\ \E e \in CatalogEntries :
       /\ e.key \in DOMAIN symbol_names
       /\ SluggedName(e.key) \in DOMAIN output_dir.files
  /\ \E e \in CatalogEntries :
       /\ e.key \notin DOMAIN symbol_names
       /\ PlainName(e.key) \in DOMAIN output_dir.files

(***************************************************************************)
(* Properties of clean_filename.                                           *)
(***************************************************************************)
\* what the n-th call of clean_filename was given
SlugGiven(n) == IF n = 1 THEN raw ELSE results[n - 1]

IsSeparator(c) == c = "-" \/ IsSpaceChar(c)

\* the text without the characters the first re.sub removes
Stripped(name) ==
  SelectSeq(name, LAMBDA c : IsWordChar(c) \/ IsSeparator(c))

\* the runs of white space and hyphens, by the place each begins at
SeparatorRuns(text) ==
  {i \in 1..Len(text) :
     IsSeparator(text[i]) /\ (i = 1 \/ ~IsSeparator(text[i - 1]))}

Underscores(text) == {i \in 1..Len(text) : text[i] = "_"}

\* a lower-case letter, a digit or the underscore
IsLowerWordChar(c) ==
  \/ \E k \in 1..Len(LowerChars) : c = LowerChars[k]
  \/ \E k \in 1..Len(DigitChars) : c = DigitChars[k]
  \/ c = "_"

\* every run of separators has become one underscore, the letters and
\* digits stand in their order, lowered
RunsCollapsed(n) ==
  /\ Cardinality(Underscores(results[n]))
       = Cardinality(Underscores(SlugGiven(n)))
         + Cardinality(SeparatorRuns(Stripped(SlugGiven(n))))
  /\ SelectSeq(results[n], LAMBDA c : c # "_")
       = lower(SelectSeq(SlugGiven(n),
                         LAMBDA c : IsWordChar(c) /\ c # "_"))

SlugExamples ==
  results # <<>> =>
    /\ raw = <<"G", "a", "t", "e", " ", "V", "a", "l", "v", "e", " ", "-", " ", "W", "e", "d", "g", "e">> => results[1] = <<"g", "a", "t", "e", "_", "v", "a", "l", "v", "e", "_", "w", "e", "d", "g", "e">>
    /\ raw = <<"C", "o", "n", "t", "r", "o", "l", " ", "V", "a", "l", "v", "e", " ", "(", "P", "n", "e", "u", "m", "a", "t", "i", "c", ")", "!">>
         => results[1] = <<"c", "o", "n", "t", "r", "o", "l", "_", "v", "a", "l", "v", "e", "_", "p", "n", "e", "u", "m", "a", "t", "i", "c">>

\* C21 as stated: for every name the slug is made of lower-case letters,
\* digits and underscores only, every run of white space and hyphens has
\* become one underscore, the two examples come out as given, and the slug
\* of a slug is that slug.
C21_SlugOfEveryName ==
  /\ \A n \in 1..Len(results) :
       /\ \A i \in 1..Len(results[n]) : IsLowerWordChar(results[n][i])
       /\ RunsCollapsed(n)
       /\ n > 1 => results[n] = results[n - 1]
  /\ SlugExamples

\* C21: for every name the slug holds no white space, no hyphen and no
\* upper-case letter, every run of white space and hyphens left by the
\* stripping has become one underscore and the two examples come out as
\* given; for a name without U+0130 the slug is made of lower-case letters,
\* digits and underscores only and the slug of a slug is that slug; for a
\* name with U+0130 the slug holds U+0307 and its own slug does not.
C21_SlugOfNameWithoutDottedI ==
  /\ \A n \in 1..Len(results) :
       /\ \A i \in 1..Len(results[n]) :
            IsLowerWordChar(results[n][i]) \/ results[n][i] = "U+0307"
       /\ RunsCollapsed(n)
  /\ SlugExamples
  /\ Len(results) >= 1 =>
       ((\A i \in 1..Len(results[1]) : IsLowerWordChar(results[1][i]))
          <=> (\A i \in 1..Len(raw) : raw[i] # "U+0130"))
  /\ Len(results) >= 2 =>
       (results[2] = results[1]
          <=> (\A i \in 1..Len(raw) : raw[i] # "U+0130"))
  /\ \A n \in 3..Len(results) : results[n] = results[n - 1]

C21_Witness ==
  /\ raw = <<"C", "o", "n", "t", "r", "o", "l", " ", "V", "a", "l", "v", "e", " ", "(", "P", "n", "e", "u", "m", "a", "t", "i", "c", ")", "!">>
  /\ Len(results) = 2
  /\ results[1] = <<"c", "o", "n", "t", "r", "o", "l", "_", "v", "a", "l", "v", "e", "_", "p", "n", "e", "u", "m", "a", "t", "i", "c">>
  /\ results[2] = results[1]


\* the run has gone through convert_to_png and is over
PngRunIsOver ==
  rpc = "exit" /\ json_file.loadable /\ args.convert_png

\* none of the three converters is on the machine
NoConverter == installed \cap {"cairosvg", "rsvg-convert", "inkscape"} = {}

RECURSIVE FilesWritten(_)
\* the files extract_symbols leaves behind after these symbols, in a run
\* that does not convert
FilesWritten(symbols) ==
  IF symbols = <<>> THEN <<>>
  ELSE LET last == symbols[Len(symbols)]
       IN WriteFile(FilesWritten(SubSeq(symbols, 1, Len(symbols) - 1)),
                    svg_filename(family, symbol_names, has_names, last.key),
                    clean_svg_content(family, last.svg))

\* the names, the SVG files and the CSV are those of the run without --png
AsWithoutPng ==
  /\ symbol_names =
       IF args.extract_names
       THEN extract_symbol_names(family, symbol_data, svg_file).symbol_names
       ELSE <<>>
  /\ output_dir.created
  /\ output_dir.files = FilesWritten(symbol_data)
  /\ extracted_count = Len(symbol_data)
  /\ csv_file =
       IF args.create_csv /\ has_names
       THEN [written |-> TRUE,
             lines |-> create_reference_csv(family, symbol_data, symbol_names)]
       ELSE [written |-> FALSE, lines |-> <<>>]

\* C22: a run with --png on a machine with none of the three converters
\* ends with exit code 0; convert_to_png was called and returned 0, there
\* is no png directory and no PNG file, and the names, the SVG files and
\* the CSV are those of the run without --png.
C22_NoConverterNoPng ==
  (PngRunIsOver /\ NoConverter) =>
    /\ exit_code = 0
    /\ Called("convert_to_png")
    /\ conversion.png_count = 0
    /\ conversion.attempts = <<>>
    /\ ~png_dir.created
    /\ png_dir.files = {}
    /\ AsWithoutPng

\* a run with --png and without a converter that wrote three SVG files and
\* the CSV
C22_Witness ==
  /\ PngRunIsOver /\ NoConverter
  /\ exit_code = 0
  /\ Cardinality(DOMAIN output_dir.files) = 3
  /\ csv_file.written
  /\ ~png_dir.created

\* the order in which the converters are looked for
ProbeOrder == <<"cairosvg", "rsvg-convert", "inkscape">>

\* the first converter of that order that is on the machine
FirstAvailable ==
  IF NoConverter THEN "None"
  ELSE ProbeOrder[CHOOSE k \in 1..3 :
                    /\ ProbeOrder[k] \in installed
                    /\ \A j \in 1..(k - 1) : ProbeOrder[j] \notin installed]

\* C23: once convert_to_png has been called, the tool it got from
\* check_conversion_tool is the first of cairosvg, rsvg-convert, inkscape
\* that is on the machine, whichever of the eight sets of converters is
\* there, and None exactly when none is; every file that was handed to
\* convert_svg_to_png was handed over with that tool.
C23_FirstAvailableTool ==
  Called("convert_to_png") =>
    /\ conversion.tool = FirstAvailable
    /\ conversion.tool = "None" <=> NoConverter
    /\ \A i \in 1..Len(conversion.attempts) :
         conversion.attempts[i].tool = FirstAvailable
    /\ NoConverter => conversion.attempts = <<>>

\* rsvg-convert and inkscape are there and cairosvg is not: three files
\* went to rsvg-convert
C23_Witness ==
  /\ PngRunIsOver
  /\ installed = {"rsvg-convert", "inkscape"}
  /\ conversion.tool = "rsvg-convert"
  /\ Len(conversion.attempts) = 3
  /\ \A i \in 1..3 : conversion.attempts[i].tool = "rsvg-convert"

\* the place of a character in the order of the code points: the full stop
\* of .svg, the digits, the underscore, the lower-case letters
CodePointRank(c) ==
  LET order == <<".svg">> \o DigitChars \o <<"_">> \o LowerChars
  IN CHOOSE k \in 1..Len(order) : order[k] = c

\* a sorts before b as Python compares strings
SortsBefore(a, b) ==
  \E i \in 1..Len(a) :
    /\ i <= Len(b)
    /\ \A j \in 1..(i - 1) : a[j] = b[j]
    /\ a[i] # b[i]
    /\ CodePointRank(a[i]) < CodePointRank(b[i])

\* the files convert_svg_to_png returned True for
Converted ==
  {i \in 1..Len(conversion.attempts) : conversion.attempts[i].ok}

\* C24: a run with --png on a machine with a converter ends with exit code
\* 0 whatever convert_svg_to_png returned for each file; every SVG file of
\* the output directory was handed to it exactly once, in the sorted order
\* of the file names; convert_to_png returned the number of files it
\* returned True for, and the png directory holds the PNG files of these
\* and no other.
C24_EveryFileAttempted ==
  (PngRunIsOver /\ ~NoConverter) =>
    /\ exit_code = 0
    /\ {conversion.attempts[i].svg : i \in 1..Len(conversion.attempts)}
         = DOMAIN output_dir.files
    /\ Len(conversion.attempts) = Cardinality(DOMAIN output_dir.files)
    /\ \A i, j \in 1..Len(conversion.attempts) :
         i < j => SortsBefore(conversion.attempts[i].svg,
                              conversion.attempts[j].svg)
    /\ conversion.png_count = Cardinality(Converted)
    /\ png_dir.created
    /\ png_dir.files = {png_file(conversion.attempts[i].svg) : i \in Converted}

\* three files: the second failed, the first and the third were converted
C24_Witness ==
  /\ PngRunIsOver /\ ~NoConverter
  /\ Len(conversion.attempts) = 3
  /\ conversion.attempts[1].ok
  /\ ~conversion.attempts[2].ok
  /\ conversion.attempts[3].ok
  /\ conversion.png_count = 2
  /\ Cardinality(png_dir.files) = 2
  /\ exit_code = 0

\* the name the except branch of extract_symbol_names gives the i-th symbol
\* when the predefined table has none for it
FallbackName(i) ==
  CASE family = "ISOPipes" -> <<"L", "i", "n", "e", " ", "S", "y", "m", "b", "o", "l", " ">> \o str(i)
    [] family = "PIPValves" -> <<"P", "I", "P", " ", "V", "a", "l", "v", "e", " ">> \o str(i + 1)
    [] family = "PIPPipes" -> <<"P", "I", "P", " ", "L", "i", "n", "e", "/", "S", "i", "g", "n", "a", "l", " ">> \o str(i + 1)
    [] family = "PIPInstruments" -> <<"P", "I", "P", " ", "I", "n", "s", "t", "r", "u", "m", "e", "n", "t", " ">> \o str(i + 1)
    [] family = "PIPFittings" -> <<"P", "I", "P", " ", "F", "i", "t", "t", "i", "n", "g", " ">> \o str(i + 1)

\* the places the except branch fills: none in the ISO valves and the ISO
\* instruments extractors, every place of the catalog in the others
FallbackPlaces ==
  IF family \in {"ISOValves", "ISOInstruments"} THEN {}
  ELSE 0..(Len(symbol_data) - 1)

\* C25: when the companion SVG cannot be read, extract_symbol_names comes
\* back with True and the run goes on to exit code 0: symbol_names holds
\* the predefined table and, for the places the except branch fills, the
\* placeholder of the place, and nothing else; the SVG files carry the
\* slugs of these names, the CSV is written when create_csv is true and
\* the analysis is made when analyze is true.
C25_UnreadCompanionFallsBack ==
  (Called("extract_symbol_names") /\ ~svg_file.readable) =>
    /\ has_names
    /\ LET table == predefined_names(family)
       IN symbol_names =
            [key \in DOMAIN table \cup {str(i) : i \in FallbackPlaces} |->
               IF key \in DOMAIN table THEN table[key]
               ELSE FallbackName(int(key))]
    /\ rpc = "exit" =>
         /\ exit_code = 0
         /\ extracted_count = Len(symbol_data)
         /\ \A e \in CatalogEntries :
              e.key \in DOMAIN symbol_names
                => SluggedName(e.key) \in DOMAIN output_dir.files
         /\ csv_file.written <=> args.create_csv
         /\ csv_file.written =>
              Len(csv_file.lines) = Len(symbol_data) + 1
         /\ Called("create_reference_csv") <=> args.create_csv
         /\ Called("analyze_symbols") <=> args.analyze

\* a run of the ISO pipes extractor without its companion SVG on a catalog
\* that goes past the predefined table: the last key has the placeholder,
\* the CSV is written and the analysis is made
C25_Witness ==
  /\ rpc = "exit"
  /\ family = "ISOPipes"
  /\ ~svg_file.readable
  /\ Called("extract_symbol_names")
  /\ args.create_csv /\ args.analyze
  /\ \E e \in CatalogEntries :
       /\ e.key \notin DOMAIN predefined_names(family)
       /\ e.key \in DOMAIN symbol_names
       /\ symbol_names[e.key] = <<"L", "i", "n", "e", " ", "S", "y", "m", "b", "o", "l", " ">> \o str(int(e.key))
  /\ csv_file.written
  /\ Called("analyze_symbols")

\* the run of the ISO valves extractor, names in use, on the catalog of the
\* one key 0 whose fragment has no xmlns and one closed path with a
\* stroke-width and neither stroke nor fill
GateValveScenario ==
  /\ family = "ISOValves"
  /\ json_file.loadable
  /\ json_file.catalog =
       <<[key |-> <<"0">>,
          svg |-> <<SVG, ">", T_PATH, D_CLOSED, STROKE_WIDTH, "/", ">",
                    "</svg", ">">>]>>
  /\ args.extract_names
  /\ rpc = "exit"

\* the one file of the directory has this name; it begins with the XML
\* declaration, its svg tag has the xmlns and its path has the black stroke
\* and the white fill
OneGateValveFile(filename) ==
  /\ DOMAIN output_dir.files = {filename}
  /\ LET text == output_dir.files[filename]
     IN /\ Head(text) = XML_DECL
        /\ Len(SelectSeq(RootTag(text), IsXmlns)) = 1
        /\ Len(Elements(text)) = 1
        /\ Has(Elements(text)[1], T_PATH)
        /\ Has(Elements(text)[1], D_CLOSED)
        /\ StrokesOf(Elements(text)[1]) = <<STROKE_BLACK>>
        /\ FillsOf(Elements(text)[1]) = <<FILL_WHITE>>

\* C26 as stated: the run of the scenario leaves exactly one SVG file, named
\* pid_family_valves_000_gate_valve.svg, with the XML declaration, the xmlns
\* and the path with stroke="#000000" and fill="white".
C26_FileNamedFamilyValves ==
  GateValveScenario =>
    OneGateValveFile(<<"pid_family_valves_">> \o <<"0", "0", "0", "_", "g", "a", "t", "e", "_", "v", "a", "l", "v", "e">>
                     \o <<".svg">>)

\* C26: the run of the scenario leaves exactly one SVG file, named
\* pid_iso_valves_000_gate_valve.svg after the prefix of the ISO valves
\* extractor, with the XML declaration, the xmlns and the path with
\* stroke="#000000" and fill="white"; the companion SVG and the other flags
\* make no difference.
C26_FileNamedIsoValves ==
  GateValveScenario =>
    OneGateValveFile(<<"pid_iso_valves_">> \o <<"0", "0", "0", "_", "g", "a", "t", "e", "_", "v", "a", "l", "v", "e">>
                     \o <<".svg">>)

\* the scenario was run with the name table holding Gate Valve for key 0
C26_Witness ==
  /\ GateValveScenario
  /\ symbol_names[<<"0">>] = <<"G", "a", "t", "e", " ", "V", "a", "l", "v", "e">>
  /\ exit_code = 0
  /\ extracted_count = 1
  /\ Cardinality(DOMAIN output_dir.files) = 1

\* C27: in the ISO pipes family a polygon, or a path whose data holds Z,
\* that has a marker attribute and no fill comes out of clean_svg_content
\* with fill="#000000" as its one fill, whatever stroke and stroke-width it
\* has.
C27_MarkerShapeBlack ==
  (Returned /\ family = "ISOPipes") =>
    \A k \in ElementIndexes :
      (/\ Has(InEl(k), MARKER_END)
       /\ FillsOf(InEl(k)) = <<>>
       /\ \/ Has(InEl(k), T_POLYGON)
          \/ Has(InEl(k), T_PATH)
             /\ (Has(InEl(k), D_CLOSED) \/ Has(InEl(k), D_CLOSED_HV)))
        => FillsOf(OutEl(k)) = <<FILL_BLACK>>

\* the data rows of the CSV, in the order of the file
DataRows == Tail(csv_file.lines)

\* C28: in a finished run that wrote a CSV there are as many data rows as
\* catalog keys; every key has a row whose Index is the integer of the key
\* and whose Filename is the name of the file extract_symbols wrote for
\* the key, a file of the output directory; the integers of the Index
\* column never go down from one row to the next, whatever the order of
\* iteration of the catalog was.
C28_CsvFilenameIsWrittenFile ==
  (rpc = "exit" /\ csv_file.written) =>
    /\ Len(DataRows) = Len(symbol_data)
    /\ \A e \in CatalogEntries :
         /\ FileOf(e.key) \in DOMAIN output_dir.files
         /\ \E r \in 1..Len(DataRows) :
              /\ DataRows[r][1] = str(int(e.key))
              /\ DataRows[r][2] = FileOf(e.key)
    /\ \A r \in 1..Len(DataRows) :
         \E e \in CatalogEntries : DataRows[r][2] = FileOf(e.key)
    /\ \A r \in 1..(Len(DataRows) - 1) :
         int(DataRows[r][1]) <= int(DataRows[r + 1][1])

\* a run that iterated from the highest key down and wrote the CSV: the
\* first row is that of the last key iterated, with the slug in its
\* Filename
C28_Witness ==
  /\ rpc = "exit"
  /\ csv_file.written
  /\ Len(symbol_data) = 3
  /\ int(symbol_data[1].key) > int(symbol_data[3].key)
  /\ DataRows[1][1] = str(int(symbol_data[3].key))
  /\ DataRows[1][2] = SluggedName(symbol_data[3].key)
  /\ DataRows[1][2] \in DOMAIN output_dir.files

\* C29: a finished run on a loaded catalog with extract_names false has
\* not called extract_symbol_names and symbol_names is empty; its SVG files
\* are exactly the files {family}_{index in three digits}.svg of the catalog
\* keys; it has written no CSV and made no analysis, whatever create_csv
\* and analyze are; convert_to_png was called exactly when convert_png is
\* true; the exit code is 0.
C29_NoNamesNoSlugNoCsv ==
  (rpc = "exit" /\ json_file.loadable /\ ~args.extract_names) =>
    /\ ~Called("extract_symbol_names")
    /\ symbol_names = <<>>
    /\ ~has_names
    /\ DOMAIN output_dir.files = {PlainName(e.key) : e \in CatalogEntries}
    /\ ~csv_file.written
    /\ ~Called("create_reference_csv")
    /\ ~Called("analyze_symbols")
    /\ Called("convert_to_png") <=> args.convert_png
    /\ (args.convert_png /\ ~NoConverter) =>
         Len(conversion.attempts) = Cardinality(DOMAIN output_dir.files)
    /\ exit_code = 0

\* a run with --no-names and --png, create_csv and analyze both true: three
\* files without a slug, no CSV, no analysis, three files handed to the
\* converter
C29_Witness ==
  /\ rpc = "exit"
  /\ json_file.loadable
  /\ ~args.extract_names /\ args.create_csv /\ args.analyze
  /\ args.convert_png
  /\ Cardinality(DOMAIN output_dir.files) = 3
  /\ \A e \in CatalogEntries : PlainName(e.key) \in DOMAIN output_dir.files
  /\ ~csv_file.written
  /\ Len(conversion.attempts) = 3

\* no two keys of the catalog spell one integer
IntegersDiffer ==
  \A i, j \in 1..Len(symbol_data) :
    i # j => int(symbol_data[i].key) # int(symbol_data[j].key)

\* C30: after a run on a loaded catalog, with names or without, two keys of
\* different integers have their files under different names and each of
\* the two files holds the cleaned text of its own symbol; when no two keys
\* spell one integer the directory holds as many SVG files as the catalog
\* has symbols, and extract_symbols counted as many.
C30_NoFileOverwritten ==
  (rpc = "exit" /\ json_file.loadable) =>
    LET written == {<<int(e.key), FileOf(e.key), e.svg>> : e \in CatalogEntries}
    IN /\ \A w \in written : w[2] \in DOMAIN output_dir.files
       /\ \A w, v \in written : w[1] # v[1] => w[2] # v[2]
       /\ extracted_count = Len(symbol_data)
       /\ IntegersDiffer =>
            /\ Cardinality(DOMAIN output_dir.files) = Len(symbol_data)
            /\ \A w \in written :
                 output_dir.files[w[2]] = clean_svg_content(family, w[3])

\* a run without names on three keys of different integers, one of them
\* past the others by more than one: three files
C30_Witness ==
  /\ rpc = "exit"
  /\ json_file.loadable
  /\ ~has_names
  /\ Len(symbol_data) = 3
  /\ IntegersDiffer
  /\ extracted_count = 3
  /\ Cardinality(DOMAIN output_dir.files) = 3
  /\ output_dir.files[PlainName(symbol_data[1].key)]
       # output_dir.files[PlainName(symbol_data[2].key)]

====
